---- MODULE Spec2Model ----
(***************************************************************************)
(* Week roll-forward of the scorecard server (server/server.js).           *)
(*                                                                         *)
(* Dates are JavaScript Date values read through the local-time accessors  *)
(* the code uses (getDay, getDate/setDate, setHours): a record             *)
(* [day, ms] of a local calendar day number and the milliseconds since     *)
(* local midnight.  Day 0 is Monday 2023-10-02, so 2024-01-01 is day 91,   *)
(* 2024-01-07 is day 97 and 2024-01-22 is day 112.  What the database      *)
(* stores is the toISOString() text, i.e. the same instant read in UTC;    *)
(* it is modelled as the [day, ms] record of the UTC reading.              *)
(*                                                                         *)
(* The database is one sqlite3 connection.  Every db.get/db.run/db.prepare *)
(* is an entry in the connection's FIFO queue; an entry is executed        *)
(* together with its JavaScript callback.  A prepared Statement keeps its  *)
(* own queue: finalize() called before the statement is prepared runs as   *)
(* soon as the prepare has completed, and run() on a finalized statement   *)
(* fails with SQLITE_MISUSE ("Statement is already finalized"), handed to  *)
(* run's callback when it has one and otherwise emitted as an 'error'      *)
(* event, which without a listener is thrown.                              *)
(***************************************************************************)
EXTENDS Integers, Sequences, FiniteSets, TLC

\* ----------------------------------------------------------------- bounds
MaxDay == 119
MaxInv == 2
StartDay == 112
MantBits == 7
MaxOrder == 1
MaxMoves == 2
MaxEvents == 1

\* ------------------------------------------------------ program constants
EndOfDayMs == 86399999
SampleWeekCount == 12
SampleMetricCount == 5

MsPerDay == EndOfDayMs + 1
NoonMs == MsPerDay \div 2
TzOffsetsMs == {0, 2 * 3600000}
TimesOfDay == {NoonMs}

VARIABLES
  now,          \* the server clock, local reading
  tz,           \* the server's offset from UTC in ms (local = UTC + tz)
  serverUp,     \* the node process is running
  people,       \* rows of table people (ids)
  weeks,        \* rows of table weeks as the connection sees them
  committed,    \* rows of table weeks that are durable
  txnOpen,      \* the connection is inside BEGIN ... COMMIT
  dbQueue,      \* the connection's queue of scheduled statements
  invs,         \* the roll-forward invocations in flight or just finished
  events,       \* what broadcastChange has emitted
  lastDone,     \* history: today and row count of the last invocation that returned
  seedPending,  \* createSampleData still has createWeeksIfNeeded to run
  seeded,       \* history: which initialization filled table weeks, with how many rows
  metrics,      \* rows of table metrics
  weeklyValues, \* rows of table weekly_values
  reqs,         \* the people, metrics and weekly-values requests in flight
  answered,     \* the response sent last to such a request, with what it broadcast
  evalIn,       \* the browser: the weekly value and target a scorecard cell shows
  evalOut,      \* the browser: what the cell's evaluation returned
  weeksResp,    \* the last answer of GET /api/weeks
  grid,         \* the browser: the week columns the Scorecard renders
  orderedMetrics, \* the browser: the Scorecard's metric rows, top to bottom
  isMounted,    \* the browser: the Scorecard is mounted
  moveReqs,     \* the browser: the reorder requests awaited by a move handler
  clients,      \* the browsers: the fetchAllData calls and socket events due
  inits,        \* the initialize requests, each with its position
  durable       \* what the database file holds: the tables as of the last commit

vars == <<now, tz, serverUp, people, weeks, committed, txnOpen, dbQueue,
          invs, events, lastDone, seedPending, seeded, metrics, weeklyValues, reqs,
          answered, evalIn, evalOut, weeksResp, grid, orderedMetrics, isMounted,
          moveReqs, clients, inits, durable>>

\* what the week roll-forward never reads or writes
storeVars == <<metrics, weeklyValues, reqs, answered>>

\* the browser's evaluation of a cell: no server route reads or writes it
clientVars == <<evalIn, evalOut, weeksResp, grid>>

\* what the browser keeps of the weeks
viewVars == <<weeksResp, grid>>

\* the Scorecard's own state
moveVars == <<orderedMetrics, isMounted, moveReqs>>

\* the initialize routes' requests and the database file
initVars == <<inits, durable>>

\* what only the refresh cycle, the move handlers and the initialize routes
\* read or write
restVars == <<moveVars, clients, initVars>>

\* ------------------------------------------------------------------ dates
NoDate == [day |-> -1, ms |-> 0]

mkDate(d, m) == [day |-> d, ms |-> m]

DateLt(a, b) == a.day < b.day \/ (a.day = b.day /\ a.ms < b.ms)

DateLe(a, b) == a = b \/ DateLt(a, b)

\* Date.prototype.getDay of the local reading: 0 is Sunday, 1 is Monday
getDay(d) == (d.day + 1) % 7

\* d.setDate(d.getDate() + n)
addDays(d, n) == [d EXCEPT !.day = d.day + n]

\* d.setHours(0, 0, 0, 0) and d.setHours(23, 59, 59, 999)
setHours(d, m) == [d EXCEPT !.ms = m]

\* shift a reading by off ms, |off| < MsPerDay
shiftMs(d, off) ==
  LET t == d.ms + off
  IN  IF t < 0 THEN mkDate(d.day - 1, t + MsPerDay)
      ELSE IF t >= MsPerDay THEN mkDate(d.day + 1, t - MsPerDay)
      ELSE mkDate(d.day, t)

\* Date.prototype.toISOString: the UTC reading of a local reading
toISOString(d, off) == shiftMs(d, 0 - off)

\* new Date(isoText): the local reading of a stored UTC reading
parseDate(s, off) == shiftMs(s, off)

\* ------------------------------------------------------------ table weeks
NoRow == [id |-> 0, name |-> <<"Week", 0>>, start_date |-> NoDate, end_date |-> NoDate]

\* one row of table weeks; name is the text `Week ${n}`
WeekRow(id, n, s, e) == [id |-> id, name |-> <<"Week", n>>, start_date |-> s, end_date |-> e]

\* SELECT * FROM weeks ORDER BY end_date DESC LIMIT 1
LatestWeek(rows) ==
  IF rows = <<>> THEN NoRow
  ELSE LET i == CHOOSE k \in 1..Len(rows) :
                  \A j \in 1..Len(rows) : DateLe(rows[j].end_date, rows[k].end_date)
       IN  rows[i]

\* ------------------------------------------------- the roll-forward dates
\* the most recent completed Sunday, at 23:59:59.999
mostRecentSunday(today) ==
  LET daysToSubtract == IF getDay(today) = 0 THEN 7 ELSE getDay(today)
  IN  setHours(addDays(today, 0 - daysToSubtract), EndOfDayMs)

\* the day after the last recorded week, left on its weekday
firstStartDateUnaligned(latestEndDate) == setHours(addDays(latestEndDate, 1), 0)

\* the day after the last recorded week, moved to a Monday
firstStartDate(latestEndDate) ==
  LET startDate == setHours(addDays(latestEndDate, 1), 0)
      daysToAdd == IF getDay(startDate) = 0 THEN 1 ELSE 8 - getDay(startDate)
  IN  IF getDay(startDate) # 1 THEN addDays(startDate, daysToAdd) ELSE startDate

\* a loop that runs up to today and drops the endDate < today test
RECURSIVE weekLoopUpToToday(_, _, _)
weekLoopUpToToday(startDate, sunday, today) ==
  IF DateLe(startDate, today)
  THEN <<[startDate |-> startDate, endDate |-> addDays(startDate, 6)]>>
       \o weekLoopUpToToday(addDays(startDate, 7), sunday, today)
  ELSE <<>>

\* the while loop: one [startDate, endDate] per week that is queued for insert
RECURSIVE weekLoop(_, _, _)
weekLoop(startDate, sunday, today) ==
  IF DateLe(startDate, sunday)
  THEN LET endDate == addDays(startDate, 6)
       IN  (IF DateLt(endDate, today)
            THEN <<[startDate |-> startDate, endDate |-> endDate]>>
            ELSE <<>>)
           \o weekLoop(addDays(startDate, 7), sunday, today)
  ELSE <<>>

\* the two guards in front of db.serialize
needsBatch(latestEndDate, today) ==
  /\ DateLt(latestEndDate, today)
  /\ DateLt(latestEndDate, mostRecentSunday(today))

\* ------------------------------------------------------ sqlite3 Statement
\* insertWeekStmt.run(...) : the error it reports, "OK" when there is none
StmtRun(finalized, diskOk) ==
  IF finalized THEN "SQLITE_MISUSE"
  ELSE IF diskOk THEN "OK" ELSE "SQLITE_ERROR"

\* ------------------------------------------------------------ invocations
NoResp == [status |-> 0, message |-> "", newWeeks |-> <<>>]

Resp(st, msg, nw) == [status |-> st, message |-> msg, newWeeks |-> nw]

\* path, pc and the locals of one invocation; today, latestEnd, count0,
\* attempts, failed, inserted, emitted, repeat, overlapped, sawNoWeeks and
\* ioError (the storage itself failed: a query, an insert on an open
\* statement, or the commit) are history
NewInv(path, pc) ==
  [path |-> path, pc |-> pc, today |-> NoDate, latestEnd |-> NoDate,
   count0 |-> 0, cands |-> <<>>, attempts |-> <<>>, newWeeksAdded |-> <<>>,
   finalizeQueued |-> FALSE, finalized |-> FALSE, failed |-> FALSE,
   inserted |-> 0, emitted |-> 0, repeat |-> FALSE, overlapped |-> FALSE,
   sawNoWeeks |-> FALSE, ioError |-> FALSE,
   response |-> NoResp]

Idle == NewInv("none", "idle")

Slots == 1..MaxInv

InFlight(k) == invs[k].pc \notin {"idle", "done", "crashed"}

\* the record of a finished invocation is kept for one step
live == [k \in Slots |-> IF InFlight(k) THEN invs[k] ELSE Idle]

\* the slot a new invocation is recorded in: the first one not in flight
freeSlot(i) == ~InFlight(i) /\ \A k \in Slots : k < i => InFlight(k)

RowIds(rows) == {rows[k].id : k \in 1..Len(rows)}

UsedIds ==
  RowIds(weeks) \cup RowIds(committed) \cup UNION {RowIds(invs[k].attempts) : k \in Slots}

\* uuidv4(): an id no row and no invocation holds
uuidv4 == CHOOSE n \in 1..(Cardinality(UsedIds) + 1) :
            n \notin UsedIds /\ \A m \in 1..(n - 1) : m \in UsedIds

Op(op, i, s, e) == [op |-> op, inv |-> i, startDate |-> s, endDate |-> e]

\* the week object pushed to newWeeksAdded
WeekObj(row) ==
  [id |-> row.id, name |-> row.name, startDate |-> row.start_date, endDate |-> row.end_date]

RECURSIVE countOps(_, _)
countOps(i, cands) ==
  IF cands = <<>> THEN <<>>
  ELSE <<Op("count", i, Head(cands).startDate, Head(cands).endDate)>>
       \o countOps(i, Tail(cands))

\* what db.serialize(() => {...}) schedules, in order
batchOps(i, cands) ==
  <<Op("begin", i, NoDate, NoDate), Op("prepare", i, NoDate, NoDate)>>
  \o countOps(i, cands)
  \o <<Op("commit", i, NoDate, NoDate)>>

\* an exception that reaches the top of the event loop ends the process:
\* the open transaction is lost and no request in flight is answered
crashedInvs == [k \in Slots |->
                 IF InFlight(k) THEN [invs[k] EXCEPT !.pc = "crashed"] ELSE Idle]

\* an exit after which the database file is gone
CrashLosingWeeks(invsAfter) ==
  /\ serverUp' = FALSE
  /\ dbQueue' = <<>>
  /\ weeks' = <<>>
  /\ txnOpen' = FALSE
  /\ invs' = invsAfter
  /\ seedPending' = FALSE
  /\ UNCHANGED <<now, tz, people, committed, events, lastDone, seeded>>

Crash(invsAfter) ==
  /\ serverUp' = FALSE
  /\ dbQueue' = <<>>
  /\ weeks' = committed
  /\ txnOpen' = FALSE
  /\ invs' = invsAfter
  /\ seedPending' = FALSE
  /\ UNCHANGED <<now, tz, people, committed, events, lastDone, seeded>>

HeadIs(op) == serverUp /\ dbQueue # <<>> /\ Head(dbQueue).op = op

\* -------------------------------------------------------------- numbers
\* A JavaScript number is a binary floating-point value: a sign, a mantissa of
\* a fixed number of bits and an exponent, and every product and quotient is
\* rounded to the nearest such value, ties to the even mantissa.  binary64
\* keeps 53 bits; the model keeps MantBits of them, and leaves the exponent
\* unbounded.  A number is NaN, zero, or s * m * 2^e with s in {1, -1} and
\* 2^(MantBits-1) <= m < 2^MantBits, so equal values have equal records.
RECURSIVE pow2(_)
pow2(n) == IF n = 0 THEN 1 ELSE 2 * pow2(n - 1)

NaN == [k |-> "nan", s |-> 1, m |-> 0, e |-> 0]
Zero == [k |-> "num", s |-> 1, m |-> 0, e |-> 0]
Num(s, m, e) == [k |-> "num", s |-> s, m |-> m, e |-> e]

\* the number nearest to (n / d) * 2^e, for n > 0 and d > 0
RECURSIVE roundPos(_, _, _)
roundPos(n, d, e) ==
  IF n \div pow2(MantBits) >= d THEN roundPos(n, 2 * d, e + 1)
  ELSE IF n \div pow2(MantBits - 1) < d THEN roundPos(2 * n, d, e - 1)
  ELSE LET q == n \div d
           r == n % d
           m == IF 2 * r > d \/ (2 * r = d /\ q % 2 = 1) THEN q + 1 ELSE q
       IN  IF m = pow2(MantBits) THEN Num(1, pow2(MantBits - 1), e + 1) ELSE Num(1, m, e)

\* a numeric literal
fromInt(n) ==
  IF n = 0 THEN Zero
  ELSE IF n > 0 THEN roundPos(n, 1, 0)
  ELSE [roundPos(-n, 1, 0) EXCEPT !.s = -1]

\* m * n * 2^e, the powers of two of n taken into the exponent
RECURSIVE mulPos(_, _, _)
mulPos(m, n, e) == IF n % 2 = 0 THEN mulPos(m, n \div 2, e + 1) ELSE roundPos(m * n, 1, e)

\* x * n and x / n for a literal n > 0
FMul(x, n) ==
  IF x.k = "nan" THEN NaN
  ELSE IF x.m = 0 THEN Zero
  ELSE [mulPos(x.m, n, x.e) EXCEPT !.s = x.s]

FDiv(x, n) ==
  IF x.k = "nan" THEN NaN
  ELSE IF x.m = 0 THEN Zero
  ELSE [roundPos(x.m, n, x.e) EXCEPT !.s = x.s]

\* -x
FNeg(x) == IF x.k = "nan" \/ x.m = 0 THEN x ELSE [x EXCEPT !.s = -x.s]

magLt(x, y) ==
  IF x.m = 0 THEN y.m # 0
  ELSE IF y.m = 0 THEN FALSE
  ELSE x.e < y.e \/ (x.e = y.e /\ x.m < y.m)

\* x < y, x === y, x <= y, x > y, x >= y: every comparison with NaN is false
FLt(x, y) ==
  /\ x.k = "num"
  /\ y.k = "num"
  /\ IF x.s # y.s THEN x.s < y.s
     ELSE IF x.s = 1 THEN magLt(x, y) ELSE magLt(y, x)

FEq(x, y) == x.k = "num" /\ y.k = "num" /\ x = y
FLe(x, y) == FLt(x, y) \/ FEq(x, y)
FGt(x, y) == FLt(y, x)
FGe(x, y) == FLe(y, x)

\* ---------------------------------------------------- target evaluation
\* the unit tags of ValueUnit and one tag outside them
Units == {"", "k", "m", "b", "%", "$", "sec", "min", "hour", "day", "week"}

\* the operators of ComparisonOperator and one outside them
Operators == {"gt", "lt", "gte", "lte", "eq", "ne"}

\* normalizeValue with the percent case multiplying
normalizeValuePercentTimes(value, unit) ==
  CASE unit = "k" -> FMul(value, 1000)
    [] unit = "m" -> FMul(value, 1000000)
    [] unit = "b" -> FMul(value, 1000000000)
    [] unit = "%" -> FMul(value, 100)
    [] unit = "min" -> FMul(value, 60)
    [] unit = "hour" -> FMul(value, 3600)
    [] unit = "day" -> FMul(value, 86400)
    [] OTHER -> value

normalizeValue(value, unit) ==
  CASE unit = "k" -> FMul(value, 1000)
    [] unit = "m" -> FMul(value, 1000000)
    [] unit = "b" -> FMul(value, 1000000000)
    [] unit = "%" -> FDiv(value, 100)
    [] unit = "$" -> value
    [] unit = "sec" -> value
    [] unit = "min" -> FMul(value, 60)
    [] unit = "hour" -> FMul(value, 3600)
    [] unit = "day" -> FMul(value, 86400)
    [] OTHER -> value

\* isOnTarget with gte compared as gt
isOnTargetStrict(weeklyValue, target) ==
  LET normalizedActual == normalizeValue(weeklyValue.value, weeklyValue.unit)
      normalizedTarget == normalizeValue(target.value, target.unit)
  IN  CASE target.operator \in {"gt", "gte"} -> FGt(normalizedActual, normalizedTarget)
        [] target.operator = "lt" -> FLt(normalizedActual, normalizedTarget)
        [] target.operator = "lte" -> FLe(normalizedActual, normalizedTarget)
        [] target.operator = "eq" -> FEq(normalizedActual, normalizedTarget)
        [] OTHER -> FALSE

\* isOnTarget with the target left as entered
isOnTargetRawTarget(weeklyValue, target) ==
  LET normalizedActual == normalizeValue(weeklyValue.value, weeklyValue.unit)
      normalizedTarget == target.value
  IN  CASE target.operator = "gt" -> FGt(normalizedActual, normalizedTarget)
        [] target.operator = "lt" -> FLt(normalizedActual, normalizedTarget)
        [] target.operator = "gte" -> FGe(normalizedActual, normalizedTarget)
        [] target.operator = "lte" -> FLe(normalizedActual, normalizedTarget)
        [] target.operator = "eq" -> FEq(normalizedActual, normalizedTarget)
        [] OTHER -> FALSE

isOnTarget(weeklyValue, target) ==
  LET normalizedActual == normalizeValue(weeklyValue.value, weeklyValue.unit)
      normalizedTarget == normalizeValue(target.value, target.unit)
  IN  CASE target.operator = "gt" -> FGt(normalizedActual, normalizedTarget)
        [] target.operator = "lt" -> FLt(normalizedActual, normalizedTarget)
        [] target.operator = "gte" -> FGe(normalizedActual, normalizedTarget)
        [] target.operator = "lte" -> FLe(normalizedActual, normalizedTarget)
        [] target.operator = "eq" -> FEq(normalizedActual, normalizedTarget)
        [] OTHER -> FALSE

\* the cell before any evaluation
NoCell ==
  [weeklyValue |-> [value |-> Zero, unit |-> ""],
   target |-> [value |-> Zero, unit |-> "", operator |-> "eq"]]

NoResult == [fn |-> "none", number |-> Zero, bool |-> FALSE]

\* no GET /api/weeks answered yet, nothing rendered
NoWeeksResp == [status |-> 0, today |-> NoDate, rows |-> <<>>]

NoGrid == [today |-> NoDate, off |-> 0, weeks |-> <<>>]

ViewInit == weeksResp = NoWeeksResp /\ grid = NoGrid

\* the browsers that are connected
Clients == {1, 2}

\* a browser with no fetchAllData call due and no socket event to handle
NoClient == [pending |-> 0, seen |-> 0]

\* the requests of the initialize routes, one record each
InitSlots == {1, 2}
\* kind: the route; pc, idx: the statement it waits for; data: the EOS export
\* it carries; status: its answer; mapped: its ownerMap; history: late, the
\* store held a person when it arrived; wrote, failed: the rows it inserted
\* that are still stored, and the INSERTs of it that failed
NoInit ==
  [kind |-> "none", pc |-> "idle", idx |-> 0, data |-> 0, status |-> 0, mapped |-> {},
   late |-> FALSE, wrote |-> 0, failed |-> 0]
NoStore == [people |-> {}, weeks |-> <<>>, metrics |-> {}, weeklyValues |-> {}]

\* nothing of the refresh cycle, the move handlers or the initialize routes
\* has run
RestInit ==
  /\ orderedMetrics = <<>>
  /\ isMounted = TRUE
  /\ moveReqs = <<>>
  /\ clients = [c \in Clients |-> NoClient]
  /\ inits = [k \in InitSlots |-> NoInit]
  /\ durable = NoStore

\* ----------------------------------------------------- the other tables
\* one row of table metrics: the columns the requests below read or write
MetricRow(id, owner, order) == [id |-> id, owner_id |-> owner, display_order |-> order]

\* one row of table weekly_values
ValueRow(id, m, w, v, u) == [id |-> id, metric_id |-> m, week_id |-> w, value |-> v, unit |-> u]

\* a request of the people, metrics and weekly-values routes between two of
\* its statements: its parameters, its position and what its first query returned
NoReq ==
  [kind |-> "none", pc |-> "idle", person |-> "", metric |-> 0, week |-> 0,
   value |-> 0, unit |-> "", order |-> -1, seen |-> 0]

\* a response: the route, the HTTP status, the event broadcast with it and,
\* for a reorder, the ids of the metrics array it carries
NoAnswer == [kind |-> "none", status |-> 0, event |-> "", list |-> <<>>]

\* the clients: each has at most one request of these routes in flight
ReqSlots == {1, 2}

\* ---------------------------------------------------------------- actions
Init ==
  /\ now \in {mkDate(StartDay, m) : m \in TimesOfDay}
  /\ tz \in TzOffsetsMs
  /\ serverUp = TRUE
  /\ people = {}
  /\ weeks = <<>>
  /\ committed = <<>>
  /\ txnOpen = FALSE
  /\ dbQueue = <<>>
  /\ invs = [k \in Slots |-> Idle]
  /\ events = <<>>
  /\ lastDone = [today |-> NoDate, count |-> 0]
  /\ seedPending = FALSE
  /\ seeded = [by |-> "none", count |-> 0]
  /\ metrics = {}
  /\ weeklyValues = {}
  /\ reqs = [k \in ReqSlots |-> NoReq]
  /\ answered = NoAnswer
  /\ evalIn = NoCell
  /\ evalOut = NoResult
  /\ ViewInit
  /\ RestInit

NoneDone == [today |-> NoDate, count |-> 0]

\* real time passes: a day ends while no invocation is in flight (an
\* invocation lasts milliseconds); the records of that day are dropped
AdvanceClock ==
  /\ now.day < MaxDay
  /\ \A k \in Slots : ~InFlight(k)
  /\ now' = addDays(now, 1)
  /\ invs' = [k \in Slots |-> Idle]
  /\ lastDone' = NoneDone
  /\ UNCHANGED <<tz, serverUp, people, weeks, committed, txnOpen, dbQueue,
                 events, seedPending, seeded>>
  /\ UNCHANGED storeVars
  /\ UNCHANGED clientVars
  /\ UNCHANGED restVars

\* docker-compose: restart: unless-stopped
Restart ==
  /\ ~serverUp
  /\ serverUp' = TRUE
  /\ invs' = live
  /\ UNCHANGED <<now, tz, people, weeks, committed, txnOpen, dbQueue,
                 events, lastDone, seedPending, seeded>>
  /\ UNCHANGED storeVars
  /\ UNCHANGED clientVars
  /\ UNCHANGED restVars

\* setInterval(() => checkAndCreateNewWeeks(), 1 hour): the db.get is scheduled
TimerTick ==
  /\ serverUp
  /\ \E i \in Slots :
       /\ freeSlot(i)
       /\ invs' = [live EXCEPT ![i] = NewInv("timer", "latest")]
       /\ dbQueue' = Append(dbQueue, Op("latest", i, NoDate, NoDate))
  /\ UNCHANGED <<now, tz, serverUp, people, weeks, committed, txnOpen,
                 events, lastDone, seedPending, seeded>>
  /\ UNCHANGED storeVars
  /\ UNCHANGED clientVars
  /\ UNCHANGED restVars

\* POST /api/weeks/update: isDatabaseInitialized() is scheduled
PostWeeksUpdate ==
  /\ serverUp
  /\ \E i \in Slots :
       /\ freeSlot(i)
       /\ invs' = [live EXCEPT ![i] = NewInv("post", "init")]
       /\ dbQueue' = Append(dbQueue, Op("people_count", i, NoDate, NoDate))
  /\ UNCHANGED <<now, tz, serverUp, people, weeks, committed, txnOpen,
                 events, lastDone, seedPending, seeded>>
  /\ UNCHANGED storeVars
  /\ UNCHANGED clientVars
  /\ UNCHANGED restVars

\* isDatabaseInitialized() resolved inside POST /api/weeks/update
PeopleCountStep ==
  /\ HeadIs("people_count")
  /\ LET i == Head(dbQueue).inv
     IN  IF people = {}
         THEN /\ invs' = [live EXCEPT ![i] =
                    [@ EXCEPT !.pc = "done",
                              !.response = Resp(200, "Database not initialized yet", <<>>)]]
              /\ dbQueue' = Tail(dbQueue)
         ELSE /\ invs' = [live EXCEPT ![i] = [@ EXCEPT !.pc = "latest"]]
              /\ dbQueue' = Append(Tail(dbQueue), Op("latest", i, NoDate, NoDate))
  /\ UNCHANGED <<now, tz, serverUp, people, weeks, committed, txnOpen,
                 events, lastDone, seedPending, seeded>>
  /\ UNCHANGED storeVars
  /\ UNCHANGED clientVars
  /\ UNCHANGED restVars

\* if (!latestWeek): the timer path returns, the POST path answers 500
noWeeksResponse(path) ==
  IF path = "post"
  THEN Resp(500, "Database is initialized but no weeks found", <<>>)
  ELSE NoResp

\* a roll-forward that goes on without a latest week
noLatestWeekNever(latestWeek) == FALSE

\* if (!latestWeek)
noLatestWeek(latestWeek) == latestWeek = NoRow

\* a db.serialize block that leaves insertWeekStmt open
afterSerializeNoFinalize(v, cands) ==
  [v EXCEPT !.pc = "batch", !.cands = cands, !.finalizeQueued = FALSE]

\* the invocation once db.serialize(() => {...}) has returned: the counts
\* are scheduled and insertWeekStmt.finalize() has been called
afterSerialize(v, cands) ==
  [v EXCEPT !.pc = "batch", !.cands = cands, !.finalizeQueued = TRUE]

\* the callback of the latest-week query, up to and including db.serialize
LatestStep ==
  /\ HeadIs("latest")
  /\ LET i == Head(dbQueue).inv
         latestWeek == LatestWeek(weeks)
         latestEndDate == parseDate(latestWeek.end_date, tz)
         today == setHours(now, 0)
         cands == weekLoop(firstStartDate(latestEndDate), mostRecentSunday(today), today)
         others == {k \in Slots : k # i /\ InFlight(k)}
         seen == [invs[i] EXCEPT
                    !.today = today, !.latestEnd = latestEndDate, !.count0 = Len(weeks),
                    !.repeat = /\ others = {}
                               /\ lastDone.today = today
                               /\ lastDone.count = Len(weeks),
                    !.overlapped = \E k \in others : invs[k].pc = "batch",
                    !.sawNoWeeks = weeks = <<>>]
     IN  IF noLatestWeek(latestWeek)
         THEN /\ invs' = [live EXCEPT ![i] =
                    [seen EXCEPT !.pc = "done", !.response = noWeeksResponse(invs[i].path)]]
              /\ dbQueue' = Tail(dbQueue)
              /\ lastDone' = lastDone
         ELSE IF needsBatch(latestEndDate, today)
         THEN /\ invs' = [live EXCEPT ![i] = afterSerialize(seen, cands)]
              /\ dbQueue' = Tail(dbQueue) \o batchOps(i, cands)
              /\ lastDone' = lastDone
         ELSE /\ invs' = [live EXCEPT ![i] =
                    [seen EXCEPT !.pc = "done",
                                 !.response =
                                    IF invs[i].path = "post"
                                    THEN Resp(200, "No new weeks needed", <<>>)
                                    ELSE NoResp]]
              /\ dbQueue' = Tail(dbQueue)
              /\ lastDone' = [today |-> today, count |-> Len(weeks)]
  /\ UNCHANGED <<now, tz, serverUp, people, weeks, committed, txnOpen,
                 events, seedPending, seeded>>
  /\ UNCHANGED storeVars
  /\ UNCHANGED clientVars
  /\ UNCHANGED restVars

\* db.run('BEGIN TRANSACTION'), which has no callback: its error is an
\* 'error' event nobody listens to
BeginStep ==
  /\ HeadIs("begin")
  /\ IF txnOpen
     THEN Crash(crashedInvs)
     ELSE /\ txnOpen' = TRUE
          /\ dbQueue' = Tail(dbQueue)
          /\ invs' = live
          /\ UNCHANGED <<now, tz, serverUp, people, weeks, committed,
                         events, lastDone, seedPending, seeded>>
  /\ UNCHANGED storeVars
  /\ UNCHANGED clientVars
  /\ UNCHANGED restVars

\* db.prepare('INSERT INTO weeks ...') completes; the statement's queue runs
PrepareStep ==
  /\ HeadIs("prepare")
  /\ LET i == Head(dbQueue).inv
     IN  invs' = [live EXCEPT ![i] = [@ EXCEPT !.finalized = invs[i].finalizeQueued]]
  /\ dbQueue' = Tail(dbQueue)
  /\ UNCHANGED <<now, tz, serverUp, people, weeks, committed, txnOpen,
                 events, lastDone, seedPending, seeded>>
  /\ UNCHANGED storeVars
  /\ UNCHANGED clientVars
  /\ UNCHANGED restVars

\* a callback that pushes the week whatever err is
timerPushesAlways(err) == TRUE

\* a callback that takes only a disk error for an error
timerPushesUnlessDiskError(err) == err # "SQLITE_ERROR"

\* timer path: function(err) of insertWeekStmt.run pushes only without error
timerPushes(err) == err = "OK"

\* the row the COUNT callback hands to insertWeekStmt.run
newRow(o) ==
  WeekRow(uuidv4, Len(weeks) + 1, toISOString(o.startDate, tz), toISOString(o.endDate, tz))

\* SELECT COUNT(*) FROM weeks and its callback, timer path
CountStepTimer ==
  /\ HeadIs("count")
  /\ invs[Head(dbQueue).inv].path = "timer"
  /\ \E countOk \in BOOLEAN, diskOk \in BOOLEAN :
       LET o == Head(dbQueue)
           i == o.inv
           row == newRow(o)
           err == StmtRun(invs[i].finalized, diskOk)
       IN  IF ~countOk
           THEN /\ invs' = [live EXCEPT ![i] = [@ EXCEPT !.failed = TRUE, !.ioError = TRUE]]
                /\ weeks' = weeks
           ELSE /\ weeks' = IF err = "OK" THEN Append(weeks, row) ELSE weeks
                /\ invs' = [live EXCEPT ![i] =
                      [@ EXCEPT !.attempts = Append(@, row),
                                !.failed = @ \/ err # "OK",
                                !.ioError = @ \/ err = "SQLITE_ERROR",
                                !.inserted = IF err = "OK" THEN @ + 1 ELSE @,
                                !.newWeeksAdded =
                                   IF timerPushes(err) THEN Append(@, WeekObj(row)) ELSE @]]
  /\ dbQueue' = Tail(dbQueue)
  /\ UNCHANGED <<now, tz, serverUp, people, committed, txnOpen, events,
                 lastDone, seedPending, seeded>>
  /\ UNCHANGED storeVars
  /\ UNCHANGED clientVars
  /\ UNCHANGED restVars

\* SELECT COUNT(*) FROM weeks and its callback, POST path: `throw err` and the
\* 'error' event of a run without callback both leave the callback by exception
CountStepPost ==
  /\ HeadIs("count")
  /\ invs[Head(dbQueue).inv].path = "post"
  /\ \E countOk \in BOOLEAN, diskOk \in BOOLEAN :
       LET o == Head(dbQueue)
           i == o.inv
           row == newRow(o)
           err == StmtRun(invs[i].finalized, diskOk)
       IN  IF countOk /\ err = "OK"
           THEN /\ weeks' = Append(weeks, row)
                /\ invs' = [live EXCEPT ![i] =
                      [@ EXCEPT !.attempts = Append(@, row),
                                !.inserted = @ + 1,
                                !.newWeeksAdded = Append(@, WeekObj(row))]]
                /\ dbQueue' = Tail(dbQueue)
                /\ UNCHANGED <<now, tz, serverUp, people, committed, txnOpen,
                               events, lastDone, seedPending, seeded>>
           ELSE Crash([crashedInvs EXCEPT ![i] =
                         [@ EXCEPT !.failed = TRUE, !.inserted = 0,
                                   !.ioError = ~countOk \/ err = "SQLITE_ERROR",
                                   !.attempts = IF countOk THEN Append(@, row) ELSE @]])
  /\ UNCHANGED storeVars
  /\ UNCHANGED clientVars
  /\ UNCHANGED restVars

\* broadcastChange('weeks_updated', newWeeksAdded)
broadcastChange(ev, data, i) == Append(events, [event |-> ev, data |-> data, inv |-> i])

\* db.run('COMMIT', cb) and its callback, both paths
CommitStep ==
  /\ HeadIs("commit")
  /\ \E commitOk \in BOOLEAN, rolledBack \in BOOLEAN :
       LET i == Head(dbQueue).inv
           v == invs[i]
       IN  IF commitOk
           THEN /\ committed' = weeks
                /\ txnOpen' = FALSE
                /\ weeks' = weeks
                /\ events' = IF Len(v.newWeeksAdded) > 0
                             THEN broadcastChange("weeks_updated", v.newWeeksAdded, i)
                             ELSE events
                /\ invs' = [live EXCEPT ![i] =
                      [@ EXCEPT !.pc = "done",
                                !.emitted = IF Len(v.newWeeksAdded) > 0 THEN @ + 1 ELSE @,
                                !.response =
                                   IF v.path = "post"
                                   THEN Resp(200, "Weeks updated", v.newWeeksAdded)
                                   ELSE NoResp]]
                /\ lastDone' = [today |-> v.today, count |-> Len(weeks)]
           ELSE /\ committed' = committed
                /\ txnOpen' = ~rolledBack
                /\ weeks' = IF rolledBack THEN committed ELSE weeks
                /\ events' = events
                /\ invs' = [live EXCEPT ![i] =
                      [@ EXCEPT !.pc = "done", !.failed = TRUE, !.ioError = TRUE,
                                !.response =
                                   IF v.path = "post"
                                   THEN Resp(500, "SQLITE_ERROR", <<>>)
                                   ELSE NoResp]]
                /\ lastDone' = [today |-> v.today, count |-> Len(weeks')]
  /\ dbQueue' = Tail(dbQueue)
  /\ UNCHANGED <<now, tz, serverUp, people, seedPending, seeded>>
  /\ UNCHANGED storeVars
  /\ UNCHANGED clientVars
  /\ UNCHANGED restVars

\* ------------------------------------------------------------ first data
samplePeople == {"alice@example.com", "bob@example.com", "carol@example.com"}

\* twelve weeks counted back from the Monday of the current week
sampleWeeksFromThisMonday(nowD, off, firstId) ==
  LET thisMonday ==
        setHours(addDays(nowD, 0 - (IF getDay(nowD) = 0 THEN 6 ELSE getDay(nowD) - 1)), 0)
      startDate(i) == addDays(thisMonday, 0 - (i * 7))
      endDate(i) == addDays(startDate(i), 6)
      all == [k \in 1..SampleWeekCount |->
                WeekRow(firstId + k - 1, k, toISOString(startDate(k - 1), off),
                        toISOString(endDate(k - 1), off))]
      completed(r) == DateLt(parseDate(r.end_date, off), nowD)
  IN  SelectSeq(all, completed)

\* createWeeksIfNeeded: the twelve weeks before the current one
sampleWeeks(nowD, off, firstId) ==
  LET mostRecentCompletedMonday ==
        setHours(addDays(nowD, 0 - 7 - (IF getDay(nowD) = 0 THEN 6 ELSE getDay(nowD) - 1)), 0)
      startDate(i) == addDays(mostRecentCompletedMonday, 0 - (i * 7))
      endDate(i) == addDays(startDate(i), 6)
      all == [k \in 1..SampleWeekCount |->
                WeekRow(firstId + k - 1, k, toISOString(startDate(k - 1), off),
                        toISOString(endDate(k - 1), off))]
      completed(r) == DateLt(parseDate(r.end_date, off), nowD)
  IN  SelectSeq(all, completed)

\* POST /api/initialize/sample: the people are committed and the request is
\* answered; the weeks follow from timers
InitializeSample ==
  /\ serverUp
  /\ people = {}
  /\ dbQueue = <<>>
  /\ people' = samplePeople
  /\ seedPending' = TRUE
  /\ invs' = live
  /\ UNCHANGED <<now, tz, serverUp, weeks, committed, txnOpen, dbQueue,
                 events, lastDone, seeded>>
  /\ UNCHANGED storeVars
  /\ UNCHANGED clientVars
  /\ UNCHANGED restVars

\* createMetricsInternal: the five sample metrics, display_order their index
sampleMetrics ==
  LET owner == <<"alice@example.com", "bob@example.com", "carol@example.com",
                 "bob@example.com", "carol@example.com">>
  IN  {MetricRow(k, owner[k], k - 1) : k \in 1..SampleMetricCount}

\* the unit createWeeklyValues gives the values of each sample metric
sampleUnit == <<"", "m", "", "%", "hour">>

\* createWeeklyValues: one value per sample metric and week; the number is
\* drawn with Math.random and is not modelled
sampleValues(ws) ==
  {ValueRow((m - 1) * Len(ws) + w, m, ws[w].id, 1, sampleUnit[m]) :
     m \in 1..SampleMetricCount, w \in 1..Len(ws)}

\* createMetricsAndWeeks -> createWeeksIfNeeded -> createWeeklyValues
SampleCreateWeeks ==
  /\ serverUp
  /\ seedPending
  /\ dbQueue = <<>>
  /\ ~txnOpen
  /\ seedPending' = FALSE
  /\ IF Len(weeks) > 0
     THEN UNCHANGED <<weeks, committed, seeded>>
     ELSE /\ weeks' = sampleWeeks(now, tz, uuidv4)
          /\ committed' = weeks'
          /\ seeded' = [by |-> "sample", count |-> Len(weeks')]
  /\ metrics' = IF metrics = {} THEN sampleMetrics ELSE metrics
  /\ weeklyValues' = IF weeklyValues = {} THEN sampleValues(weeks') ELSE weeklyValues
  /\ UNCHANGED <<reqs, answered>>
  /\ UNCHANGED clientVars
  /\ UNCHANGED restVars
  /\ invs' = live
  /\ UNCHANGED <<now, tz, serverUp, people, txnOpen, dbQueue, events, lastDone>>

\* the dates of an EOS export: text stored as given
EosEndDays == {97, 100, 103, 104}

EosInputs ==
  {<<[fromDate |-> mkDate(e - 6, 0), toDate |-> mkDate(e, 0), intervalNo |-> 1]>> :
     e \in EosEndDays}

RECURSIVE eosWeeks(_, _)
eosWeeks(dates, firstId) ==
  IF dates = <<>> THEN <<>>
  ELSE <<WeekRow(firstId, Head(dates).intervalNo, Head(dates).fromDate, Head(dates).toDate)>>
       \o eosWeeks(Tail(dates), firstId + 1)

\* POST /api/initialize/eos -> importEosData
InitializeEos ==
  /\ serverUp
  /\ people = {}
  /\ dbQueue = <<>>
  /\ ~txnOpen
  /\ \E dates \in EosInputs :
       /\ people' = {"owner@example.com"}
       /\ weeks' = eosWeeks(dates, uuidv4)
       /\ committed' = weeks'
       /\ seeded' = [by |-> "eos", count |-> Len(weeks')]
  /\ invs' = live
  /\ UNCHANGED <<now, tz, serverUp, txnOpen, dbQueue, events, lastDone, seedPending>>
  /\ UNCHANGED storeVars
  /\ UNCHANGED clientVars
  /\ UNCHANGED restVars

Next ==
  \/ AdvanceClock
  \/ Restart
  \/ TimerTick
  \/ PostWeeksUpdate
  \/ PeopleCountStep
  \/ LatestStep
  \/ BeginStep
  \/ PrepareStep
  \/ CountStepTimer
  \/ CountStepPost
  \/ CommitStep
  \/ InitializeSample
  \/ SampleCreateWeeks
  \/ InitializeEos

Spec == Init /\ [][Next]_vars

\* ------------------------------------------- the browser evaluates a cell
\* the numbers a cell or a target may hold: literals, and NaN
InputInts == {-95, 0, 50, 90, 95, 100, 112, 113, 120}
InputNumbers == {fromInt(n) : n \in InputInts} \cup {NaN}

EvalInputs ==
  [weeklyValue : [value : InputNumbers, unit : Units],
   target : [value : InputNumbers, unit : Units, operator : Operators]]

\* a scorecard with one cell to evaluate; the server is as started
EvalInit ==
  /\ evalIn \in EvalInputs
  /\ evalOut = NoResult
  /\ ViewInit
  /\ RestInit
  /\ now = mkDate(StartDay, NoonMs)
  /\ tz = 0
  /\ serverUp = TRUE
  /\ people = {}
  /\ weeks = <<>>
  /\ committed = <<>>
  /\ txnOpen = FALSE
  /\ dbQueue = <<>>
  /\ invs = [k \in Slots |-> Idle]
  /\ events = <<>>
  /\ lastDone = [today |-> NoDate, count |-> 0]
  /\ seedPending = FALSE
  /\ seeded = [by |-> "none", count |-> 0]
  /\ metrics = {}
  /\ weeklyValues = {}
  /\ reqs = [k \in ReqSlots |-> NoReq]
  /\ answered = NoAnswer

serverVars ==
  <<now, tz, serverUp, people, weeks, committed, txnOpen, dbQueue, invs, events,
    lastDone, seedPending, seeded, metrics, weeklyValues, reqs, answered>>

\* normalizeValue(weeklyValue.value, weeklyValue.unit)
CallNormalizeValue ==
  /\ evalOut = NoResult
  /\ evalOut' = [fn |-> "normalizeValue",
                 number |-> normalizeValue(evalIn.weeklyValue.value, evalIn.weeklyValue.unit),
                 bool |-> FALSE]
  /\ UNCHANGED <<evalIn, serverVars, viewVars, restVars>>

\* isOnTarget(weeklyValue, metric.target)
CallIsOnTarget ==
  /\ evalOut = NoResult
  /\ evalOut' = [fn |-> "isOnTarget", number |-> Zero,
                 bool |-> isOnTarget(evalIn.weeklyValue, evalIn.target)]
  /\ UNCHANGED <<evalIn, serverVars, viewVars, restVars>>

EvalNext ==
  \/ CallNormalizeValue
  \/ CallIsOnTarget

EvalSpec == EvalInit /\ [][EvalNext]_vars

\* ------------------------- the people, metrics and weekly-values routes
\* The handlers run on one connection outside serialize mode: each statement
\* is executed when the pool takes it and its callback issues the next one,
\* so the statements of different requests interleave.  An action is one
\* statement with the callback that follows it; the first one of a request
\* includes the handler up to that statement.  Request bodies are well
\* formed: the 400 answers to a missing field are not modelled.
\* the ids uuidv4 can give a person, and the owner ids a request can name:
\* those and one that is no person's
PersonIds == {"p1"}
OwnerIds == PersonIds \cup {"p0"}
MetricIds == {1, 2}
WeekIds == {1}
ValueInputs == {[value |-> 1, unit |-> ""], [value |-> 2, unit |-> "k"]}

\* the displayOrder of a PUT body: -1 when the body has none
OrderInputs == {-1, 0}

\* the metrics arrays of reorder requests, as ids
ReorderLists == {<<1>>, <<2>>, <<1, 2>>, <<2, 1>>}

\* an empty database and no request in flight
StoreInit ==
  /\ now = mkDate(StartDay, NoonMs)
  /\ tz = 0
  /\ serverUp = TRUE
  /\ people = {}
  /\ weeks = <<>>
  /\ committed = <<>>
  /\ txnOpen = FALSE
  /\ dbQueue = <<>>
  /\ invs = [k \in Slots |-> Idle]
  /\ events = <<>>
  /\ lastDone = [today |-> NoDate, count |-> 0]
  /\ seedPending = FALSE
  /\ seeded = [by |-> "none", count |-> 0]
  /\ metrics = {}
  /\ weeklyValues = {}
  /\ reqs = [k \in ReqSlots |-> NoReq]
  /\ answered = NoAnswer
  /\ evalIn = NoCell
  /\ evalOut = NoResult
  /\ ViewInit
  /\ RestInit

\* what these routes neither read nor write
rollVars ==
  <<now, tz, serverUp, weeks, committed, txnOpen, dbQueue, invs, events, lastDone,
    seedPending, seeded, evalIn, evalOut, viewVars, restVars>>

Answer(kind, status, event) ==
  [kind |-> kind, status |-> status, event |-> event, list |-> <<>>]

\* the slot a new request takes
newReq(k) == reqs[k] = NoReq /\ \A j \in ReqSlots : j < k => reqs[j] # NoReq

\* uuidv4() for a person, a metric, a weekly value: an id nothing refers to
newPersonIds ==
  PersonIds \ (people \cup {m.owner_id : m \in metrics} \cup {reqs[k].person : k \in ReqSlots})

newMetricIds ==
  MetricIds \ ({m.id : m \in metrics} \cup {v.metric_id : v \in weeklyValues}
               \cup {reqs[k].metric : k \in ReqSlots})

\* which one makes no difference: the model takes one fixed by the pair and by
\* the number of rows the pair has
newValueId(m, w) ==
  10 * m + w + 100 * Cardinality({v \in weeklyValues : v.metric_id = m /\ v.week_id = w})

\* SELECT COUNT(*) FROM metrics WHERE owner_id = ?
ownedCount(p) == Cardinality({m \in metrics : m.owner_id = p})

\* SELECT MAX(display_order) FROM metrics: -1 stands for null
maxOrder ==
  IF metrics = {} THEN -1
  ELSE CHOOSE o \in {m.display_order : m \in metrics} : \A m \in metrics : m.display_order <= o

\* POST /api/people
PostPerson ==
  /\ \E p \in newPersonIds :
       /\ people' = people \cup {p}
       /\ answered' = Answer("postPerson", 201, "person_created")
  /\ UNCHANGED <<metrics, weeklyValues, reqs, rollVars>>

\* DELETE /api/people/:id, the COUNT and its callback
DeletePersonCount ==
  /\ \E k \in ReqSlots, p \in PersonIds :
       /\ newReq(k)
       /\ IF ownedCount(p) > 0
          THEN /\ answered' = Answer("deletePerson", 400, "")
               /\ reqs' = reqs
          ELSE /\ reqs' = [reqs EXCEPT ![k] =
                             [NoReq EXCEPT !.kind = "deletePerson", !.pc = "delete", !.person = p]]
               /\ answered' = answered
  /\ UNCHANGED <<people, metrics, weeklyValues, rollVars>>

\* DELETE /api/people/:id, the DELETE and its callback
DeletePersonRun ==
  /\ \E k \in ReqSlots :
       /\ reqs[k].kind = "deletePerson"
       /\ reqs[k].pc = "delete"
       /\ IF reqs[k].person \in people
          THEN /\ people' = people \ {reqs[k].person}
               /\ answered' = Answer("deletePerson", 200, "person_deleted")
          ELSE /\ people' = people
               /\ answered' = Answer("deletePerson", 404, "")
       /\ reqs' = [reqs EXCEPT ![k] = NoReq]
  /\ UNCHANGED <<metrics, weeklyValues, rollVars>>

\* POST /api/metrics, the validation, the MAX and its callback
PostMetricMax ==
  /\ \E k \in ReqSlots, owner \in OwnerIds :
       /\ newReq(k)
       /\ maxOrder + 1 <= MaxOrder
       /\ \E id \in newMetricIds :
            reqs' = [reqs EXCEPT ![k] =
                       [NoReq EXCEPT !.kind = "postMetric", !.pc = "insert", !.person = owner,
                                     !.metric = id, !.order = maxOrder + 1]]
       /\ answered' = answered
  /\ UNCHANGED <<people, metrics, weeklyValues, rollVars>>

\* POST /api/metrics, the INSERT and its callback
PostMetricInsert ==
  /\ \E k \in ReqSlots :
       /\ reqs[k].kind = "postMetric"
       /\ reqs[k].pc = "insert"
       /\ metrics' = metrics \cup {MetricRow(reqs[k].metric, reqs[k].person, reqs[k].order)}
       /\ answered' = Answer("postMetric", 201, "metric_created")
       /\ reqs' = [reqs EXCEPT ![k] = NoReq]
  /\ UNCHANGED <<people, weeklyValues, rollVars>>

\* PUT /api/metrics/:id
PutMetric ==
  /\ \E id \in MetricIds, owner \in OwnerIds, displayOrder \in OrderInputs :
       IF \A m \in metrics : m.id # id
       THEN /\ answered' = Answer("putMetric", 404, "")
            /\ metrics' = metrics
       ELSE /\ metrics' =
                 {IF m.id # id THEN m
                  ELSE MetricRow(id, owner,
                                 IF displayOrder = -1 THEN m.display_order ELSE displayOrder) :
                    m \in metrics}
            /\ answered' = Answer("putMetric", 200, "metric_updated")
  /\ UNCHANGED <<people, weeklyValues, reqs, rollVars>>

\* DELETE /api/metrics/:id, the DELETE FROM weekly_values and its callback
DeleteMetricValues ==
  /\ \E k \in ReqSlots, id \in MetricIds :
       /\ newReq(k)
       /\ weeklyValues' = {v \in weeklyValues : v.metric_id # id}
       /\ reqs' = [reqs EXCEPT ![k] =
                     [NoReq EXCEPT !.kind = "deleteMetric", !.pc = "metric", !.metric = id]]
  /\ UNCHANGED <<people, metrics, answered, rollVars>>

\* DELETE /api/metrics/:id, the DELETE FROM metrics and its callback
DeleteMetricRun ==
  /\ \E k \in ReqSlots :
       /\ reqs[k].kind = "deleteMetric"
       /\ reqs[k].pc = "metric"
       /\ IF \E m \in metrics : m.id = reqs[k].metric
          THEN /\ metrics' = {m \in metrics : m.id # reqs[k].metric}
               /\ answered' = Answer("deleteMetric", 200, "metric_deleted")
          ELSE /\ metrics' = metrics
               /\ answered' = Answer("deleteMetric", 404, "")
       /\ reqs' = [reqs EXCEPT ![k] = NoReq]
  /\ UNCHANGED <<people, weeklyValues, rollVars>>

\* the row of a (metric, week) pair, if any
hasValue(m, w) == \E v \in weeklyValues : v.metric_id = m /\ v.week_id = w

\* POST /api/weekly-values, the validation, the SELECT and its callback
PostValueSelect ==
  /\ \E k \in ReqSlots, m \in MetricIds, w \in WeekIds, in \in ValueInputs :
       /\ newReq(k)
       /\ reqs' = [reqs EXCEPT ![k] =
                     [NoReq EXCEPT !.kind = "postValue", !.pc = "write", !.metric = m,
                                   !.week = w, !.value = in.value, !.unit = in.unit,
                                   !.seen = IF hasValue(m, w) THEN 1 ELSE 0]]
       /\ answered' = answered
  /\ UNCHANGED <<people, metrics, weeklyValues, rollVars>>

\* the INSERT of POST /api/weekly-values without UNIQUE (metric_id, week_id)
insertValueNoUnique(r) ==
  /\ weeklyValues' = weeklyValues \cup {ValueRow(newValueId(r.metric, r.week), r.metric, r.week, r.value, r.unit)}
  /\ answered' = Answer("postValue", 201, "weekly_value_created")

\* INSERT INTO weekly_values under UNIQUE (metric_id, week_id)
insertValue(r) ==
  IF hasValue(r.metric, r.week)
  THEN /\ weeklyValues' = weeklyValues
       /\ answered' = Answer("postValue", 500, "")
  ELSE /\ weeklyValues' = weeklyValues \cup {ValueRow(newValueId(r.metric, r.week), r.metric, r.week, r.value, r.unit)}
       /\ answered' = Answer("postValue", 201, "weekly_value_created")

\* POST /api/weekly-values, the UPDATE or the INSERT and its callback
PostValueWrite ==
  /\ \E k \in ReqSlots :
       /\ reqs[k].kind = "postValue"
       /\ reqs[k].pc = "write"
       /\ IF reqs[k].seen = 1
          THEN /\ weeklyValues' =
                    {IF v.metric_id = reqs[k].metric /\ v.week_id = reqs[k].week
                     THEN ValueRow(v.id, v.metric_id, v.week_id, reqs[k].value, reqs[k].unit)
                     ELSE v : v \in weeklyValues}
               /\ answered' = Answer("postValue", 200, "weekly_value_updated")
          ELSE insertValue(reqs[k])
       /\ reqs' = [reqs EXCEPT ![k] = NoReq]
  /\ UNCHANGED <<people, metrics, rollVars>>

\* the place of id in a metrics array: the last one, as the later UPDATE wins
lastIndex(list, id) ==
  CHOOSE i \in 1..Len(list) : list[i] = id /\ \A j \in (i + 1)..Len(list) : list[j] # id

\* POST /api/metrics/reorder: BEGIN, one UPDATE per element, COMMIT, queued in
\* one turn under serialize, and the callback of COMMIT
Reorder(list) ==
  /\ metrics' =
       {IF \E i \in 1..Len(list) : list[i] = m.id
        THEN MetricRow(m.id, m.owner_id, lastIndex(list, m.id) - 1)
        ELSE m : m \in metrics}
  /\ answered' = [Answer("reorder", 200, "metrics_reordered") EXCEPT !.list = list]
  /\ UNCHANGED <<people, weeklyValues, reqs, rollVars>>

PostReorder == \E list \in ReorderLists : Reorder(list)

\* the place of id among the elements whose UPDATE did not fail
lastIndexDone(list, id, failed) ==
  CHOOSE i \in (1..Len(list)) \ failed :
    list[i] = id /\ \A j \in ((i + 1)..Len(list)) \ failed : list[j] # id

\* POST /api/metrics/reorder when the UPDATEs of the elements in failed report
\* an error: their callbacks set hasError after the handler has tested it, so
\* COMMIT is queued and its callback answers
ReorderFailing(list, failed) ==
  /\ metrics' =
       {IF \E i \in (1..Len(list)) \ failed : list[i] = m.id
        THEN MetricRow(m.id, m.owner_id, lastIndexDone(list, m.id, failed) - 1)
        ELSE m : m \in metrics}
  /\ answered' = [Answer("reorder", 200, "metrics_reordered") EXCEPT !.list = list]
  /\ UNCHANGED <<people, weeklyValues, reqs, rollVars>>

\* a statement fails when the disk is full or the file is locked
PostReorderFailing ==
  \E list \in ReorderLists :
    \E failed \in (SUBSET (1..Len(list))) \ {{}} : ReorderFailing(list, failed)

StoreNext ==
  \/ PostPerson
  \/ DeletePersonCount
  \/ DeletePersonRun
  \/ PostMetricMax
  \/ PostMetricInsert
  \/ PutMetric
  \/ DeleteMetricValues
  \/ DeleteMetricRun
  \/ PostValueSelect
  \/ PostValueWrite
  \/ PostReorder

StoreSpec == StoreInit /\ [][StoreNext]_vars

\* ------------------------------------------- a reorder whose UPDATEs fail
\* two stored metrics with different display orders
StoredOrders == 0..(MaxOrder + 1)

ReorderInit ==
  /\ now = mkDate(StartDay, NoonMs)
  /\ tz \in TzOffsetsMs
  /\ serverUp = TRUE
  /\ people = PersonIds
  /\ weeks = <<>>
  /\ committed = <<>>
  /\ txnOpen = FALSE
  /\ dbQueue = <<>>
  /\ invs = [k \in Slots |-> Idle]
  /\ events = <<>>
  /\ lastDone = [today |-> NoDate, count |-> 0]
  /\ seedPending = FALSE
  /\ seeded = [by |-> "none", count |-> 0]
  /\ \E o1 \in StoredOrders, o2 \in StoredOrders, p1 \in OwnerIds, p2 \in OwnerIds :
       /\ o1 # o2
       /\ metrics = {MetricRow(1, p1, o1), MetricRow(2, p2, o2)}
  /\ weeklyValues = {}
  /\ reqs = [k \in ReqSlots |-> NoReq]
  /\ answered = NoAnswer
  /\ evalIn = NoCell
  /\ evalOut = NoResult
  /\ ViewInit
  /\ RestInit

ReorderNext ==
  \/ PostReorder
  \/ PostReorderFailing

ReorderSpec == ReorderInit /\ [][ReorderNext]_vars

\* the elements of a sequence
Range(seq) == {seq[k] : k \in 1..Len(seq)}

\* ------------------------------------- GET /api/weeks and the week columns
\* ORDER BY ... ASC and Array.prototype.sort with a difference comparator:
\* ascending by lt (lt[i][j]: element i sorts before element j), rows that
\* compare equal keep their order
sortAscending(seq, lt) ==
  LET rank(i) == Cardinality({j \in 1..Len(seq) :
                    lt[j][i] \/ (~lt[i][j] /\ j < i)}) + 1
  IN  [k \in 1..Len(seq) |-> seq[CHOOSE i \in 1..Len(seq) : rank(i) = k]]

\* SELECT * FROM weeks WHERE end_date <= ? ORDER BY start_date ASC
selectWeeksThrough(param) ==
  LET ended(r) == DateLe(r.end_date, param)
      rows == SelectSeq(weeks, ended)
      byStart == [a \in 1..Len(rows) |-> [b \in 1..Len(rows) |->
                    DateLt(rows[a].start_date, rows[b].start_date)]]
  IN  sortAscending(rows, byStart)

\* SELECT * FROM weeks WHERE end_date < ? ORDER BY start_date ASC
selectWeeksBefore(param) ==
  LET ended(r) == DateLt(r.end_date, param)
      rows == SelectSeq(weeks, ended)
      byStart == [a \in 1..Len(rows) |-> [b \in 1..Len(rows) |->
                    DateLt(rows[a].start_date, rows[b].start_date)]]
  IN  sortAscending(rows, byStart)

\* app.get('/api/weeks'): err answers 500, else the rows as week objects
GetWeeks ==
  /\ serverUp
  /\ LET today == setHours(now, 0)
         rows == selectWeeksBefore(toISOString(today, tz))
     IN  \E err \in BOOLEAN :
           weeksResp' = IF err THEN [status |-> 500, today |-> today, rows |-> <<>>]
                        ELSE [status |-> 200, today |-> today,
                              rows |-> [k \in 1..Len(rows) |-> WeekObj(rows[k])]]
  /\ UNCHANGED <<now, tz, serverUp, people, weeks, committed, txnOpen, dbQueue,
                 invs, events, lastDone, seedPending, seeded, evalIn, evalOut, grid>>
  /\ UNCHANGED storeVars
  /\ UNCHANGED restVars

\* the browser's clock shows the same instant in the browser's own zone
browserNow(off) == parseDate(toISOString(now, tz), off)

\* Scorecard: completedWeeks, then sortedWeeks, from the weeks it was handed
sortedWeeks(fetched, today, off) ==
  LET completed(week) == DateLt(parseDate(week.endDate, off), today)
      completedWeeks == SelectSeq(fetched, completed)
      byStart == [a \in 1..Len(completedWeeks) |-> [b \in 1..Len(completedWeeks) |->
                    DateLt(parseDate(completedWeeks[a].startDate, off),
                           parseDate(completedWeeks[b].startDate, off))]]
  IN  sortAscending(completedWeeks, byStart)

ScorecardRender ==
  /\ weeksResp.status = 200
  /\ \E off \in TzOffsetsMs :
       LET today == setHours(browserNow(off), 0)
       IN  grid' = [today |-> today, off |-> off,
                    weeks |-> sortedWeeks(weeksResp.rows, today, off)]
  /\ UNCHANGED <<now, tz, serverUp, people, weeks, committed, txnOpen, dbQueue,
                 invs, events, lastDone, seedPending, seeded, evalIn, evalOut, weeksResp>>
  /\ UNCHANGED storeVars
  /\ UNCHANGED restVars

\* table weeks as its writers leave it: sample weeks end at local
\* midnight, rolled-forward weeks at 23:59:59.999
ViewEndDays == {StartDay - 8, StartDay - 1, StartDay, StartDay + 1, StartDay + 6}
ViewTimesOfDay == {3600000, NoonMs, EndOfDayMs - 3600000}

ViewWeekInputs(off) ==
  {[start_date |-> toISOString(mkDate(e - 6, 0), off), end_date |-> toISOString(mkDate(e, m), off)] :
     e \in ViewEndDays, m \in {0, EndOfDayMs}}

WeeksInit ==
  /\ now \in {mkDate(StartDay, m) : m \in ViewTimesOfDay}
  /\ tz \in TzOffsetsMs
  /\ serverUp = TRUE
  /\ people = {"owner@example.com"}
  /\ \E a \in ViewWeekInputs(tz), b \in ViewWeekInputs(tz) :
       /\ a.end_date # b.end_date
       /\ weeks = <<WeekRow(1, 1, a.start_date, a.end_date), WeekRow(2, 2, b.start_date, b.end_date)>>
  /\ committed = weeks
  /\ txnOpen = FALSE
  /\ dbQueue = <<>>
  /\ invs = [k \in Slots |-> Idle]
  /\ events = <<>>
  /\ lastDone = [today |-> NoDate, count |-> 0]
  /\ seedPending = FALSE
  /\ seeded = [by |-> "eos", count |-> 2]
  /\ metrics = {}
  /\ weeklyValues = {}
  /\ reqs = [k \in ReqSlots |-> NoReq]
  /\ answered = NoAnswer
  /\ evalIn = NoCell
  /\ evalOut = NoResult
  /\ ViewInit
  /\ RestInit

WeeksNext ==
  \/ AdvanceClock
  \/ GetWeeks
  \/ ScorecardRender

WeeksSpec == WeeksInit /\ [][WeeksNext]_vars

\* ------------------------------------------- the Scorecard's move handlers
\* the metrics the Scorecard is handed
MoveMetricIds == {1, 2, 3}

MetricLists ==
  {l \in [1..Cardinality(MoveMetricIds) -> MoveMetricIds] :
     \A i, j \in DOMAIN l : i # j => l[i] # l[j]}

\* updatedMetrics[i] = updatedMetrics[j] with no temp: the element at i is lost
swapWithoutTemp(list, i, j) == [list EXCEPT ![i + 1] = list[j + 1]]

\* const temp = updatedMetrics[i]; updatedMetrics[i] = updatedMetrics[j];
\* updatedMetrics[j] = temp, on a copy; i and j count from 0
swap(list, i, j) == [list EXCEPT ![i + 1] = list[j + 1], ![j + 1] = list[i + 1]]

\* the indexes a handler can be called with
MoveIndexes == (0 - 1)..Cardinality(MoveMetricIds)

\* a call of reorderMetricsApi: the orderedMetrics the handler closed over,
\* the array it sent and how the request ended
MoveReq(before, sent) == [before |-> before, sent |-> sent, state |-> "pending"]

\* the handler from setOrderedMetrics(updatedMetrics) on
moveTo(updatedMetrics) ==
  /\ orderedMetrics' = updatedMetrics
  /\ moveReqs' = Append(moveReqs, MoveReq(orderedMetrics, updatedMetrics))

handleMoveUp(index) ==
  /\ isMounted
  /\ Len(moveReqs) < MaxMoves
  /\ IF index <= 0 \/ index >= Len(orderedMetrics)
     THEN UNCHANGED <<orderedMetrics, moveReqs>>
     ELSE moveTo(swap(orderedMetrics, index, index - 1))
  /\ UNCHANGED <<isMounted, clients, initVars, evalIn, evalOut, viewVars, serverVars>>

handleMoveDown(index) ==
  /\ isMounted
  /\ Len(moveReqs) < MaxMoves
  /\ IF index < 0 \/ index >= Len(orderedMetrics) - 1
     THEN UNCHANGED <<orderedMetrics, moveReqs>>
     ELSE moveTo(swap(orderedMetrics, index, index + 1))
  /\ UNCHANGED <<isMounted, clients, initVars, evalIn, evalOut, viewVars, serverVars>>

HandleMoveUp == \E index \in MoveIndexes : handleMoveUp(index)

HandleMoveDown == \E index \in MoveIndexes : handleMoveDown(index)

\* await reorderMetricsApi(updatedMetrics) returns
reorderResolves(k) ==
  /\ moveReqs[k].state = "pending"
  /\ moveReqs' = [moveReqs EXCEPT ![k].state = "done"]
  /\ UNCHANGED <<orderedMetrics, isMounted, clients, initVars, evalIn, evalOut,
                 viewVars, serverVars>>

\* await reorderMetricsApi(updatedMetrics) throws: the catch block
reorderRejects(k) ==
  /\ moveReqs[k].state = "pending"
  /\ moveReqs' = [moveReqs EXCEPT ![k].state = "failed"]
  /\ orderedMetrics' = IF isMounted THEN moveReqs[k].before ELSE orderedMetrics
  /\ UNCHANGED <<isMounted, clients, initVars, evalIn, evalOut, viewVars, serverVars>>

ReorderResolves == \E k \in DOMAIN moveReqs : reorderResolves(k)

ReorderRejects == \E k \in DOMAIN moveReqs : reorderRejects(k)

\* useEffect on the metrics prop: setOrderedMetrics([...metrics])
ReceiveMetrics ==
  /\ isMounted
  /\ \E metricsProp \in MetricLists :
       /\ metricsProp # orderedMetrics
       /\ orderedMetrics' = metricsProp
  /\ UNCHANGED <<isMounted, moveReqs, clients, initVars, evalIn, evalOut,
                 viewVars, serverVars>>

\* the cleanup of the mount effect
Unmount ==
  /\ isMounted
  /\ isMounted' = FALSE
  /\ UNCHANGED <<orderedMetrics, moveReqs, clients, initVars, evalIn, evalOut,
                 viewVars, serverVars>>

MoveInit ==
  /\ now = mkDate(StartDay, NoonMs)
  /\ tz = 0
  /\ serverUp = TRUE
  /\ people = {}
  /\ weeks = <<>>
  /\ committed = <<>>
  /\ txnOpen = FALSE
  /\ dbQueue = <<>>
  /\ invs = [k \in Slots |-> Idle]
  /\ events = <<>>
  /\ lastDone = [today |-> NoDate, count |-> 0]
  /\ seedPending = FALSE
  /\ seeded = [by |-> "none", count |-> 0]
  /\ metrics = {}
  /\ weeklyValues = {}
  /\ reqs = [k \in ReqSlots |-> NoReq]
  /\ answered = NoAnswer
  /\ evalIn = NoCell
  /\ evalOut = NoResult
  /\ ViewInit
  /\ orderedMetrics \in MetricLists
  /\ isMounted = TRUE
  /\ moveReqs = <<>>
  /\ clients = [c \in Clients |-> NoClient]
  /\ inits = [k \in InitSlots |-> NoInit]
  /\ durable = NoStore

MoveNext ==
  \/ HandleMoveUp
  \/ HandleMoveDown
  \/ ReorderResolves
  \/ ReorderRejects
  \/ ReceiveMetrics
  \/ Unmount

MoveSpec == MoveInit /\ [][MoveNext]_vars

\* ------------------------------------------------- the initialize routes
\* ownerName.toLowerCase(), word by word
toLowerCase(word) ==
  CASE word = "Ann" -> "ann"
    [] word = "Lee" -> "lee"
    [] word = "Bob" -> "bob"
    [] word = "Ray" -> "ray"
    [] OTHER -> word

\* `${ownerName.toLowerCase().replace(/\s+/g, '.')}@example.com`
emailOf(ownerName) ==
  LET lower == [k \in DOMAIN ownerName |-> toLowerCase(ownerName[k])]
  IN  CASE lower = <<"ann", "lee">> -> "ann.lee@example.com"
        [] lower = <<"bob", "ray">> -> "bob.ray@example.com"
        [] OTHER -> "owner@example.com"

\* the EOS exports a request can carry: two measurables, one date
EosDate == [intervalId |-> 1, intervalNo |-> 1, fromDate |-> mkDate(StartDay - 14, 0),
            toDate |-> mkDate(StartDay - 8, 0)]

Measurable(ownerId, ownerName, sequence) ==
  [ownerId |-> ownerId, ownerName |-> ownerName, sequence |-> sequence,
   values |-> <<[intervalId |-> 1, value |-> 1]>>]

EosData ==
  <<[measurables |-> <<Measurable(1, <<"Ann", "Lee">>, 0), Measurable(2, <<"Bob", "Ray">>, 1)>>,
     dates |-> <<EosDate>>],
    [measurables |-> <<Measurable(1, <<"Ann", "Lee">>, 0), Measurable(2, <<"ann", "lee">>, 1)>>,
     dates |-> <<EosDate>>],
    [measurables |-> <<Measurable(1, <<"Ann", "Lee">>, 0), Measurable(1, <<"Ann", "Lee">>, 1)>>,
     dates |-> <<EosDate>>]>>

\* [...new Set(eosData.measurables.map(m => m.ownerId))]
RECURSIVE ownersOf(_, _)
ownersOf(measurables, seen) ==
  IF measurables = <<>> THEN <<>>
  ELSE IF Head(measurables).ownerId \in seen THEN ownersOf(Tail(measurables), seen)
  ELSE <<Head(measurables).ownerId>>
       \o ownersOf(Tail(measurables), seen \cup {Head(measurables).ownerId})

\* eosData.measurables.find(m => m.ownerId === ownerId).ownerName
ownerNameOf(measurables, ownerId) ==
  measurables[CHOOSE i \in DOMAIN measurables :
                /\ measurables[i].ownerId = ownerId
                /\ \A j \in 1..(i - 1) : measurables[j].ownerId # ownerId].ownerName

\* the tables as the connection sees them
theStore == [people |-> people, weeks |-> weeks, metrics |-> metrics, weeklyValues |-> weeklyValues]

\* a check that finds the store empty whatever it holds
neverInitialized == FALSE

\* isDatabaseInitialized(): SELECT COUNT(*) FROM people, count > 0
isDatabaseInitialized == people # {}

\* the request whose statement the connection runs next
InitHead(k, pc) == serverUp /\ dbQueue # <<>> /\ Head(dbQueue) = k /\ inits[k].pc = pc

\* the callback schedules the request's next statement
requeue(k) == Append(Tail(dbQueue), k)

initUnchanged == <<now, tz, committed, invs, events, lastDone, seedPending, seeded,
                   reqs, answered, evalIn, evalOut, viewVars, moveVars, clients>>

\* a request arrives: the route schedules its first SELECT COUNT(*)
InitArrives ==
  /\ serverUp
  /\ \E k \in InitSlots, kind \in {"sample", "eos"}, d \in DOMAIN EosData :
       /\ inits[k].kind = "none"
       /\ \A j \in InitSlots : j < k => inits[j].kind # "none"
       /\ kind = "sample" => d = 1
       /\ inits' = [inits EXCEPT ![k] =
                      [NoInit EXCEPT !.kind = kind, !.pc = "count", !.data = d,
                                     !.late = people # {}]]
       /\ dbQueue' = Append(dbQueue, k)
  /\ UNCHANGED <<serverUp, people, weeks, metrics, weeklyValues, txnOpen, durable>>
  /\ UNCHANGED initUnchanged

\* await isDatabaseInitialized() in either route
InitCount ==
  /\ \E k \in InitSlots :
       /\ InitHead(k, "count")
       /\ IF isDatabaseInitialized
          THEN /\ inits' = [inits EXCEPT ![k].pc = "done", ![k].status = 400]
               /\ dbQueue' = Tail(dbQueue)
          ELSE /\ inits' = [inits EXCEPT ![k].pc =
                              IF inits[k].kind = "sample" THEN "count2" ELSE "begin"]
               /\ dbQueue' = requeue(k)
  /\ UNCHANGED <<serverUp, people, weeks, metrics, weeklyValues, txnOpen, durable>>
  /\ UNCHANGED initUnchanged

\* checkForDataAndInitializeSampleData: the second check, createSampleData()
\* called and not awaited, the promise resolved and the request answered
SampleCheck ==
  /\ \E k \in InitSlots :
       /\ InitHead(k, "count2")
       /\ IF isDatabaseInitialized
          THEN /\ inits' = [inits EXCEPT ![k].pc = "done", ![k].status = 200]
               /\ dbQueue' = Tail(dbQueue)
          ELSE /\ inits' = [inits EXCEPT ![k].pc = "begin", ![k].status = 200]
               /\ dbQueue' = requeue(k)
  /\ UNCHANGED <<serverUp, people, weeks, metrics, weeklyValues, txnOpen, durable>>
  /\ UNCHANGED initUnchanged

\* createSampleData: db.run('BEGIN TRANSACTION', cb); on an error cb returns
SampleBegin ==
  /\ \E k \in InitSlots :
       /\ InitHead(k, "begin")
       /\ inits[k].kind = "sample"
       /\ IF txnOpen
          THEN /\ inits' = [inits EXCEPT ![k].pc = "done"]
               /\ dbQueue' = Tail(dbQueue)
               /\ txnOpen' = txnOpen
          ELSE /\ inits' = [inits EXCEPT ![k].pc = "person", ![k].idx = 1]
               /\ dbQueue' = requeue(k)
               /\ txnOpen' = TRUE
  /\ UNCHANGED <<serverUp, people, weeks, metrics, weeklyValues, durable>>
  /\ UNCHANGED initUnchanged

samplePeopleList == <<"alice@example.com", "bob@example.com", "carol@example.com">>

\* processPerson(index): SELECT id FROM people WHERE email = ?, then the INSERT
\* unless the person exists
SamplePerson ==
  /\ \E k \in InitSlots :
       /\ InitHead(k, "person")
       /\ LET email == samplePeopleList[inits[k].idx]
              last == inits[k].idx = Len(samplePeopleList)
          IN  /\ people' = people \cup {email}
              /\ inits' = [inits EXCEPT
                             ![k].pc = IF last THEN "commit" ELSE "person",
                             ![k].idx = IF last THEN 0 ELSE @ + 1,
                             ![k].wrote = IF email \in people THEN @ ELSE @ + 1]
       /\ dbQueue' = requeue(k)
  /\ UNCHANGED <<serverUp, weeks, metrics, weeklyValues, txnOpen, durable>>
  /\ UNCHANGED initUnchanged

\* db.run('COMMIT', cb) of createSampleData: on success the timer is set
SampleCommit ==
  /\ \E k \in InitSlots :
       /\ InitHead(k, "commit")
       /\ inits[k].kind = "sample"
       /\ IF txnOpen
          THEN /\ txnOpen' = FALSE
               /\ durable' = theStore
               /\ inits' = [inits EXCEPT ![k].pc = "timer"]
          ELSE /\ txnOpen' = txnOpen
               /\ durable' = durable
               /\ inits' = [inits EXCEPT ![k].pc = "done"]
       /\ dbQueue' = Tail(dbQueue)
  /\ UNCHANGED <<serverUp, people, weeks, metrics, weeklyValues>>
  /\ UNCHANGED initUnchanged

\* setTimeout(() => createMetricsAndWeeks(people), 500) fires:
\* createMetricsInternal, createWeeksIfNeeded, createWeeklyValues
SampleTimer ==
  /\ serverUp
  /\ ~txnOpen
  /\ \E k \in InitSlots :
       /\ inits[k].pc = "timer"
       /\ weeks' = IF Len(weeks) > 0 THEN weeks ELSE sampleWeeks(now, tz, 1)
       /\ metrics' = IF metrics = {} THEN sampleMetrics ELSE metrics
       /\ weeklyValues' = IF weeklyValues = {} THEN sampleValues(weeks') ELSE weeklyValues
       /\ durable' = [theStore EXCEPT !.weeks = weeks', !.metrics = metrics',
                                      !.weeklyValues = weeklyValues']
       /\ inits' = [inits EXCEPT ![k].pc = "done",
                                 ![k].wrote = @ + (Len(weeks') - Len(weeks))
                                                + Cardinality(metrics' \ metrics)]
  /\ UNCHANGED <<serverUp, people, txnOpen, dbQueue>>
  /\ UNCHANGED initUnchanged

\* the process dies: the open transaction is gone, and so are the requests
\* not yet answered and the timers
InitCrash ==
  /\ serverUp' = FALSE
  /\ people' = durable.people
  /\ weeks' = durable.weeks
  /\ metrics' = durable.metrics
  /\ weeklyValues' = durable.weeklyValues
  /\ txnOpen' = FALSE
  /\ dbQueue' = <<>>
  /\ inits' = [k \in InitSlots |->
                 IF inits[k].pc \in {"idle", "done"} THEN inits[k]
                 ELSE [inits[k] EXCEPT !.pc = "done",
                                       !.wrote = IF inits[k].pc = "timer" THEN @ ELSE 0]]
  /\ durable' = durable

\* importEosData: db.run('BEGIN TRANSACTION') has no callback, so its error is
\* an 'error' event nobody listens to; processOwners(0) is queued with it
EosBegin ==
  /\ \E k \in InitSlots :
       /\ InitHead(k, "begin")
       /\ inits[k].kind = "eos"
       /\ IF txnOpen
          THEN InitCrash
          ELSE /\ txnOpen' = TRUE
               /\ inits' = [inits EXCEPT ![k].pc = "owners", ![k].idx = 1]
               /\ dbQueue' = dbQueue
               /\ UNCHANGED <<serverUp, people, weeks, metrics, weeklyValues, durable>>
  /\ UNCHANGED initUnchanged

\* processOwners(index): INSERT INTO people, email UNIQUE; an error is logged
\* and the owner is left out of ownerMap
EosOwner ==
  /\ \E k \in InitSlots :
       /\ InitHead(k, "owners")
       /\ LET measurables == EosData[inits[k].data].measurables
              owners == ownersOf(measurables, {})
              ownerId == owners[inits[k].idx]
              email == emailOf(ownerNameOf(measurables, ownerId))
              last == inits[k].idx = Len(owners)
              err == email \in people
          IN  /\ people' = people \cup {email}
              /\ inits' = [inits EXCEPT
                             ![k].pc = IF last THEN "weeks" ELSE "owners",
                             ![k].idx = IF last THEN 1 ELSE @ + 1,
                             ![k].mapped = IF err THEN @ ELSE @ \cup {ownerId},
                             ![k].wrote = IF err THEN @ ELSE @ + 1,
                             ![k].failed = IF err THEN @ + 1 ELSE @]
       /\ dbQueue' = requeue(k)
  /\ UNCHANGED <<serverUp, weeks, metrics, weeklyValues, txnOpen, durable>>
  /\ UNCHANGED initUnchanged

\* processWeeks: INSERT INTO weeks for each date, the text as given
EosWeeks ==
  /\ \E k \in InitSlots :
       /\ InitHead(k, "weeks")
       /\ LET rows == eosWeeks(EosData[inits[k].data].dates, Len(weeks) + 1)
          IN  /\ weeks' = weeks \o rows
              /\ inits' = [inits EXCEPT ![k].pc = "metrics", ![k].idx = 1,
                                        ![k].wrote = @ + Len(rows)]
       /\ dbQueue' = requeue(k)
  /\ UNCHANGED <<serverUp, people, metrics, weeklyValues, txnOpen, durable>>
  /\ UNCHANGED initUnchanged

\* processMetrics(index): a measurable whose owner is not in ownerMap is
\* skipped; else INSERT INTO metrics and processValues
EosMetric ==
  /\ \E k \in InitSlots :
       /\ InitHead(k, "metrics")
       /\ LET measurables == EosData[inits[k].data].measurables
              measurable == measurables[inits[k].idx]
              last == inits[k].idx = Len(measurables)
              skip == measurable.ownerId \notin inits[k].mapped
              owner == emailOf(ownerNameOf(measurables, measurable.ownerId))
              metricId == 10 * k + inits[k].idx
              dates == EosData[inits[k].data].dates
              mappedId(v) == Len(weeks) - Len(dates)
                               + CHOOSE i \in DOMAIN dates : dates[i].intervalId = v.intervalId
              rows == {ValueRow(100 * metricId + i, metricId, mappedId(measurable.values[i]),
                                measurable.values[i].value, "") :
                         i \in DOMAIN measurable.values}
          IN  /\ metrics' = IF skip THEN metrics
                            ELSE metrics \cup {MetricRow(metricId, owner, measurable.sequence)}
              /\ weeklyValues' = IF skip THEN weeklyValues ELSE weeklyValues \cup rows
              /\ inits' = [inits EXCEPT
                             ![k].pc = IF last THEN "commit" ELSE "metrics",
                             ![k].idx = IF last THEN 0 ELSE @ + 1,
                             ![k].wrote = IF skip THEN @ ELSE @ + 1 + Cardinality(rows)]
       /\ dbQueue' = requeue(k)
  /\ UNCHANGED <<serverUp, people, weeks, txnOpen, durable>>
  /\ UNCHANGED initUnchanged

\* db.run('COMMIT', cb) of importEosData: reject or resolve, and the answer
EosCommit ==
  /\ \E k \in InitSlots :
       /\ InitHead(k, "commit")
       /\ inits[k].kind = "eos"
       /\ IF txnOpen
          THEN /\ txnOpen' = FALSE
               /\ durable' = theStore
               /\ inits' = [inits EXCEPT ![k].pc = "done", ![k].status = 200]
          ELSE /\ txnOpen' = txnOpen
               /\ durable' = durable
               /\ inits' = [inits EXCEPT ![k].pc = "done", ![k].status = 500]
       /\ dbQueue' = Tail(dbQueue)
  /\ UNCHANGED <<serverUp, people, weeks, metrics, weeklyValues>>
  /\ UNCHANGED initUnchanged

\* the process is started again
InitRestart ==
  /\ ~serverUp
  /\ serverUp' = TRUE
  /\ UNCHANGED <<people, weeks, metrics, weeklyValues, txnOpen, dbQueue, inits, durable>>
  /\ UNCHANGED initUnchanged

InitInit ==
  /\ now \in {mkDate(StartDay, m) : m \in TimesOfDay}
  /\ tz \in TzOffsetsMs
  /\ serverUp = TRUE
  /\ people = {}
  /\ weeks = <<>>
  /\ committed = <<>>
  /\ txnOpen = FALSE
  /\ dbQueue = <<>>
  /\ invs = [k \in Slots |-> Idle]
  /\ events = <<>>
  /\ lastDone = [today |-> NoDate, count |-> 0]
  /\ seedPending = FALSE
  /\ seeded = [by |-> "none", count |-> 0]
  /\ metrics = {}
  /\ weeklyValues = {}
  /\ reqs = [k \in ReqSlots |-> NoReq]
  /\ answered = NoAnswer
  /\ evalIn = NoCell
  /\ evalOut = NoResult
  /\ ViewInit
  /\ RestInit

InitNext ==
  \/ InitArrives
  \/ InitCount
  \/ SampleCheck
  \/ SampleBegin
  \/ SamplePerson
  \/ SampleCommit
  \/ SampleTimer
  \/ EosBegin
  \/ EosOwner
  \/ EosWeeks
  \/ EosMetric
  \/ EosCommit
  \/ InitRestart

InitSpec == InitInit /\ [][InitNext]_vars

\* ------------------------------------------------------- the refresh cycle
\* a fetchAllData call that stays due once it has run
afterFetchStillDue(c) == clients

\* fetchAllData has run once for client c
afterFetch(c) == [clients EXCEPT ![c].pending = @ - 1]

refreshUnchanged == <<now, tz, people, weeks, committed, txnOpen, events, lastDone,
                      seedPending, seeded, evalIn, evalOut, viewVars, moveVars, initVars>>

\* fetchAllData(false): await updateWeeksApi() sends POST /api/weeks/update,
\* whose handler schedules isDatabaseInitialized(); with the server down the
\* fetch rejects and the catch block reports it
FetchAllData ==
  /\ \E c \in Clients :
       /\ clients[c].pending > 0
       /\ clients' = afterFetch(c)
       /\ IF serverUp
          THEN \E i \in Slots :
                 /\ freeSlot(i)
                 /\ invs' = [live EXCEPT ![i] = NewInv("post", "init")]
                 /\ dbQueue' = Append(dbQueue, Op("people_count", i, NoDate, NoDate))
          ELSE UNCHANGED <<invs, dbQueue>>
  /\ UNCHANGED serverUp
  /\ UNCHANGED refreshUnchanged
  /\ UNCHANGED storeVars

\* socket.on(<any change event>, () => onUpdate()): fetchAllData(false) is due;
\* an event broadcast while the socket effect is reconnecting is not delivered
SocketEvent ==
  /\ \E c \in Clients :
       /\ clients[c].seen < Len(events)
       /\ \E delivered \in BOOLEAN :
            clients' = [clients EXCEPT ![c].seen = @ + 1,
                                       ![c].pending = IF delivered THEN @ + 1 ELSE @]
  /\ UNCHANGED <<serverUp, invs, dbQueue>>
  /\ UNCHANGED refreshUnchanged
  /\ UNCHANGED storeVars

\* a change from outside the cycle is broadcast: a person or a metric saved
OtherChange ==
  /\ serverUp
  /\ Len(events) < MaxEvents
  /\ events' = broadcastChange("metric_updated", <<>>, 0)
  /\ UNCHANGED <<now, tz, serverUp, people, weeks, committed, txnOpen, dbQueue, invs,
                 lastDone, seedPending, seeded, evalIn, evalOut, viewVars, moveVars,
                 initVars, clients>>
  /\ UNCHANGED storeVars

\* the sample weeks of an earlier day are stored, today is fixed and every
\* browser is loading the page
RefreshSeedDays == {StartDay - 14, StartDay}

RefreshInit ==
  /\ now \in {mkDate(d, NoonMs) : d \in StartDay..(StartDay + 6)}
  /\ tz \in TzOffsetsMs
  /\ serverUp = TRUE
  /\ people = samplePeople
  /\ \E d \in RefreshSeedDays : weeks = sampleWeeks(mkDate(d, NoonMs), tz, 1)
  /\ committed = weeks
  /\ txnOpen = FALSE
  /\ dbQueue = <<>>
  /\ invs = [k \in Slots |-> Idle]
  /\ events = <<>>
  /\ lastDone = [today |-> NoDate, count |-> 0]
  /\ seedPending = FALSE
  /\ seeded = [by |-> "sample", count |-> Len(weeks)]
  /\ metrics = {}
  /\ weeklyValues = {}
  /\ reqs = [k \in ReqSlots |-> NoReq]
  /\ answered = NoAnswer
  /\ evalIn = NoCell
  /\ evalOut = NoResult
  /\ ViewInit
  /\ orderedMetrics = <<>>
  /\ isMounted = TRUE
  /\ moveReqs = <<>>
  /\ clients = [c \in Clients |-> [pending |-> 1, seen |-> 0]]
  /\ inits = [k \in InitSlots |-> NoInit]
  /\ durable = NoStore

RefreshNext ==
  \/ FetchAllData
  \/ SocketEvent
  \/ OtherChange
  \/ PeopleCountStep
  \/ LatestStep
  \/ BeginStep
  \/ PrepareStep
  \/ CountStepPost
  \/ CommitStep
  \/ Restart

RefreshSpec == RefreshInit /\ [][RefreshNext]_vars

\* ========================================================== properties
\* the calendar days a stored week covers, in the server's local time
Interval(r) == [s |-> parseDate(r.start_date, tz).day, e |-> parseDate(r.end_date, tz).day]

Intervals(rows) == [k \in 1..Len(rows) |-> Interval(rows[k])]

\* no two of the intervals share a day (a week stored twice shares all of them)
DisjointIntervals(I) ==
  \A k \in 1..Len(I) : \A l \in (k + 1)..Len(I) : I[k].e < I[l].s \/ I[l].e < I[k].s

Disjoint(rows) == DisjointIntervals(Intervals(rows))

\* the rows are weeks of seven days, Monday to Sunday, that cover a run of
\* days without gap and without overlap
Tiled(rows) ==
  LET I == Intervals(rows)
      starts == {I[k].s : k \in 1..Len(I)}
      ends == {I[k].e : k \in 1..Len(I)}
  IN  /\ \A k \in 1..Len(I) : I[k].e = I[k].s + 6 /\ getDay(mkDate(I[k].s, 0)) = 1
      /\ DisjointIntervals(I)
      /\ \A d \in starts : (d - 1) \in ends \/ \A d2 \in starts : d <= d2

Finished(j) == invs[j].pc \in {"done", "crashed"}

\* the week objects of the rows invocation j tried to insert that are committed
persistedBy(j) ==
  SelectSeq([k \in 1..Len(invs[j].attempts) |-> WeekObj(invs[j].attempts[k])],
            LAMBDA w : w.id \in RowIds(committed))

\* the weeks that lie between a Sunday L and today T: they start at L+1, L+8,
\* ... and their Sunday is before T
ExpectedWeeks(L, T) ==
  LET n == IF T - L - 1 < 0 THEN 0 ELSE (T - L - 1) \div 7
  IN  [k \in 1..n |-> [s |-> L + 1 + 7 * (k - 1), e |-> L + 7 * k]]

\* the rows the initialization put in table weeks
seedRows == SubSeq(weeks, 1, seeded.count)

\* C1: when the weeks the initialization stored are Monday-to-Sunday weeks
\* that tile a run of days with no gap and no overlap, the stored weeks are
\* such a tiling in every state the program reaches from there, whatever
\* roll-forwards have run and whatever today has become.
C1_TilingPreserved ==
  /\ Len(weeks) >= seeded.count
  /\ (seeded.count > 0 /\ Tiled(seedRows)) => Tiled(weeks)

\* C1 case: on a day after the first one, a roll-forward that had weeks to
\* add has run to its end over a tiled store.
C1_Witness ==
  /\ seeded.count > 0 /\ Tiled(seedRows)
  /\ \E j \in Slots : /\ invs[j].pc = "done"
                      /\ invs[j].cands # <<>>
                      /\ invs[j].today.day > StartDay

\* C2: when an invocation reads the latest week while another one has read
\* it and not yet finished its batch, and the storage does not fail, the
\* second one is a no-op: it does not end the process, it stores nothing, and
\* the store never holds a week twice or two weeks that overlap.
C2_OverlappedIsNoOp ==
  /\ Disjoint(weeks)
  /\ \A j \in Slots :
       (invs[j].overlapped /\ \A k \in Slots : ~invs[k].ioError) =>
         /\ invs[j].pc # "crashed"
         /\ invs[j].inserted = 0
         /\ invs[j].newWeeksAdded = <<>>
         /\ Len(weeks) = invs[j].count0

\* C3: every week the roll-forward produces ended strictly before the today
\* it ran with: today's own week is never produced, and on a Sunday the week
\* that ends today is not produced.
C3_OnlyCompletedWeeks ==
  \A j \in Slots :
    /\ \A k \in 1..Len(invs[j].cands) :
         /\ DateLt(invs[j].cands[k].endDate, invs[j].today)
         /\ invs[j].cands[k].endDate.day < invs[j].today.day
    /\ \A k \in 1..Len(invs[j].attempts) :
         Interval(invs[j].attempts[k]).e < invs[j].today.day

\* C3 case: a roll-forward that ran on a Sunday and produced weeks.
C3_Witness ==
  \E j \in Slots : /\ invs[j].cands # <<>>
                   /\ invs[j].attempts # <<>>
                   /\ getDay(invs[j].today) = 0

\* C4: an invocation that follows a finished one with the same today and the
\* same stored weeks inserts nothing, emits nothing and returns no new week.
C4_SecondCallIsNoOp ==
  \A j \in Slots :
    (invs[j].repeat /\ Finished(j)) =>
      /\ invs[j].inserted = 0
      /\ invs[j].emitted = 0
      /\ invs[j].response.newWeeks = <<>>
      /\ Len(weeks) = invs[j].count0

\* C4 case: a second POST for the same today and the same store was answered.
C4_Witness ==
  \E j \in Slots : /\ invs[j].repeat
                   /\ invs[j].pc = "done"
                   /\ invs[j].path = "post"
                   /\ invs[j].response.status = 200

\* C5: when a storage operation of a batch fails, none of the batch's weeks
\* is in the store, the caller is told of the error (the POST is answered
\* with status 500), and no event is emitted.
C5_FailureIsReported ==
  \A j \in Slots :
    (Finished(j) /\ invs[j].failed) =>
      /\ \A k \in 1..Len(invs[j].attempts) : invs[j].attempts[k].id \notin RowIds(weeks)
      /\ invs[j].emitted = 0
      /\ invs[j].path = "post" => invs[j].response.status = 500

C7_ExactNewWeeks ==
  \A j \in Slots :
    (/\ invs[j].pc = "done"
     /\ ~invs[j].ioError
     /\ invs[j].count0 > 0
     /\ getDay(invs[j].latestEnd) = 0) =>
      /\ Len(weeks) >= invs[j].count0
      /\ Intervals(SubSeq(weeks, invs[j].count0 + 1, Len(weeks)))
           = ExpectedWeeks(invs[j].latestEnd.day, invs[j].today.day)

\* C8: every week the roll-forward produces starts on a Monday at 00:00 and
\* ends on the Sunday six days later, each one a week after the one before;
\* the first one starts on the first Monday on or after the day that follows
\* the latest stored end date.
C8_MondayToSunday ==
  \A j \in Slots :
    /\ \A k \in 1..Len(invs[j].cands) :
         LET c == invs[j].cands[k]
         IN  /\ getDay(c.startDate) = 1
             /\ c.startDate.ms = 0
             /\ c.endDate = addDays(c.startDate, 6)
             /\ getDay(c.endDate) = 0
             /\ k > 1 => c.startDate = addDays(invs[j].cands[k - 1].startDate, 7)
    /\ invs[j].cands # <<>> =>
         invs[j].cands[1].startDate.day \in
           (invs[j].latestEnd.day + 1)..(invs[j].latestEnd.day + 7)
    /\ \A k \in 1..Len(invs[j].attempts) :
         LET r == invs[j].attempts[k]
         IN  /\ getDay(parseDate(r.start_date, tz)) = 1
             /\ getDay(parseDate(r.end_date, tz)) = 0
             /\ Interval(r).e = Interval(r).s + 6

\* C8 case: the day after the latest stored end date is not a Monday and the
\* roll-forward has produced weeks from it.
C8_Witness ==
  \E j \in Slots : /\ invs[j].cands # <<>>
                   /\ invs[j].attempts # <<>>
                   /\ getDay(addDays(invs[j].latestEnd, 1)) # 1

C10_NamesRunOn ==
  \A j \in Slots :
    \A k \in 1..Len(invs[j].attempts) :
      invs[j].attempts[k].name = <<"Week", invs[j].count0 + k>>

\* the latest stored week ends on or after the most recent Sunday before today
CaughtUp(today) ==
  /\ weeks # <<>>
  /\ Interval(LatestWeek(weeks)).e >= mostRecentSunday(today).day

\* C11: once weeks exist, when a timer tick has run to its end, alone and
\* without a storage failure, the latest stored week ends on the most recent
\* Sunday before today.
C11_CaughtUpAfterTick ==
  \A j \in Slots :
    (/\ invs[j].pc = "done"
     /\ invs[j].path = "timer"
     /\ ~invs[j].sawNoWeeks
     /\ ~invs[j].overlapped
     /\ ~invs[j].ioError) =>
      CaughtUp(invs[j].today)

\* a step of a roll-forward invocation, by the timer or by POST /api/weeks/update
RollForwardStep ==
  \/ TimerTick \/ PostWeeksUpdate \/ PeopleCountStep \/ LatestStep \/ BeginStep
  \/ PrepareStep \/ CountStepTimer \/ CountStepPost \/ CommitStep

\* C12: a step of a roll-forward invocation leaves every committed week in
\* table weeks, at its place and as it was, and leaves the people, the
\* metrics and the weekly values as they were (so no weekly value is created
\* for a new week).
C12_AppendOnly ==
  [][RollForwardStep =>
       /\ Len(weeks') >= Len(committed)
       /\ SubSeq(weeks', 1, Len(committed)) = committed
       /\ Len(committed') >= Len(committed)
       /\ SubSeq(committed', 1, Len(committed)) = committed
       /\ people' = people
       /\ metrics' = metrics
       /\ weeklyValues' = weeklyValues]_vars

\* C12 case: a roll-forward that had weeks to add has run to its end on a
\* store that holds weeks, metrics and weekly values.
C12_Witness ==
  /\ committed # <<>> /\ metrics # {} /\ weeklyValues # {}
  /\ \E j \in Slots : invs[j].pc = "done" /\ invs[j].attempts # <<>>

\* the comparison an operator names, on two numbers
applyOperator(op, a, t) ==
  \/ op = "gt" /\ FLt(t, a)
  \/ op = "lt" /\ FLt(a, t)
  \/ op = "gte" /\ (FLt(t, a) \/ FEq(a, t))
  \/ op = "lte" /\ (FLt(a, t) \/ FEq(a, t))
  \/ op = "eq" /\ FEq(a, t)

Cell(v, u) == [value |-> fromInt(v), unit |-> u]
Goal(v, u, op) == [value |-> fromInt(v), unit |-> u, operator |-> op]

\* C13: isOnTarget(actual, target) is the comparison target.operator names,
\* applied to normalizeValue of the actual and normalizeValue of the target,
\* each with its own unit: gt is >, lt is <, gte is >=, lte is <=, eq is
\* exact equality, and any other operator gives false; 50 against 50 with eq
\* is true and 120 against 100 with gte is true.
C13_OperatorOnNormalized ==
  evalOut.fn = "isOnTarget" =>
    /\ evalOut.bool =
         applyOperator(evalIn.target.operator,
                       normalizeValue(evalIn.weeklyValue.value, evalIn.weeklyValue.unit),
                       normalizeValue(evalIn.target.value, evalIn.target.unit))
    /\ evalIn.target.operator \notin {"gt", "lt", "gte", "lte", "eq"} => ~evalOut.bool
    /\ (evalIn.weeklyValue = Cell(50, "") /\ evalIn.target = Goal(50, "", "eq")) => evalOut.bool
    /\ (evalIn.weeklyValue = Cell(120, "") /\ evalIn.target = Goal(100, "", "gte")) => evalOut.bool

\* isOnTarget answered true for lt although the number entered is the larger:
\* the units differ and decide
C13_Witness ==
  /\ evalOut.fn = "isOnTarget"
  /\ evalOut.bool
  /\ evalIn.target.operator = "lt"
  /\ evalIn.weeklyValue.unit # evalIn.target.unit
  /\ FLt(evalIn.target.value, evalIn.weeklyValue.value)

\* C14: normalizeValue(value, unit) multiplies value by a factor fixed by the
\* unit (k 1,000; m 1,000,000; b 1,000,000,000; min 60; hour 3600; day 86400),
\* divides by 100 for '%', and returns value unchanged for '$', 'sec', the
\* empty unit and every unrecognized unit; it always returns a number, and
\* the value's sign and size choose no branch: negating the value negates
\* the result.
C14_FixedFactorPerUnit ==
  evalOut.fn = "normalizeValue" =>
    LET v == evalIn.weeklyValue.value
        u == evalIn.weeklyValue.unit
        r == evalOut.number
    IN  /\ r.k \in {"num", "nan"}
        /\ u = "k" => r = FMul(v, 1000)
        /\ u = "m" => r = FMul(v, 1000000)
        /\ u = "b" => r = FMul(v, 1000000000)
        /\ u = "min" => r = FMul(v, 60)
        /\ u = "hour" => r = FMul(v, 3600)
        /\ u = "day" => r = FMul(v, 86400)
        /\ u = "%" => r = FDiv(v, 100)
        /\ u \notin {"k", "m", "b", "min", "hour", "day", "%"} => r = v
        /\ normalizeValue(FNeg(v), u) = FNeg(r)

\* normalizeValue scaled a negative value to days
C14_Witness ==
  /\ evalOut.fn = "normalizeValue"
  /\ evalIn.weeklyValue.unit = "day"
  /\ FLt(evalIn.weeklyValue.value, Zero)
  /\ FLt(evalOut.number, evalIn.weeklyValue.value)

\* C15: scaling never flips a comparison: when the value and the target
\* carry the same unit, isOnTarget equals the operator applied to the two
\* numbers as entered, for every unit, operator and pair of numbers.
C15_SameUnitIsRawComparison ==
  (evalOut.fn = "isOnTarget" /\ evalIn.weeklyValue.unit = evalIn.target.unit) =>
    evalOut.bool =
      applyOperator(evalIn.target.operator, evalIn.weeklyValue.value, evalIn.target.value)

\* C15 as amended: scaling never reverses a comparison, though rounding may
\* make two different numbers equal once scaled: with the same unit on both
\* sides, gte, lte and eq are true whenever they hold of the numbers as
\* entered, gt and lt are true only when they hold of the numbers as entered,
\* and with a unit that leaves the number unchanged isOnTarget is the operator
\* on the numbers as entered; 95 '%' against 90 '%' with gte is true.
C15_SameUnitKeepsOrder ==
  (evalOut.fn = "isOnTarget" /\ evalIn.weeklyValue.unit = evalIn.target.unit) =>
    LET op == evalIn.target.operator
        raw == applyOperator(op, evalIn.weeklyValue.value, evalIn.target.value)
    IN  /\ op \in {"gte", "lte", "eq"} => (raw => evalOut.bool)
        /\ op \in {"gt", "lt"} => (evalOut.bool => raw)
        /\ op \notin {"gt", "lt", "gte", "lte", "eq"} => ~evalOut.bool
        /\ evalIn.target.unit \notin {"k", "m", "b", "min", "hour", "day", "%"} =>
             evalOut.bool = raw
        /\ (evalIn.weeklyValue = Cell(95, "%") /\ evalIn.target = Goal(90, "%", "gte")) =>
             evalOut.bool

\* two different numbers with the same unit became equal once scaled: gte is
\* true of them although the number entered is the smaller
C15_Witness ==
  /\ evalOut.fn = "isOnTarget"
  /\ evalIn.weeklyValue.unit = evalIn.target.unit
  /\ evalIn.target.operator = "gte"
  /\ evalOut.bool
  /\ FLt(evalIn.weeklyValue.value, evalIn.target.value)

\* C16: a person is never removed from storage while a stored metric has that
\* person as owner, whatever the order of delete, metric-create and
\* metric-update requests; a delete that finds the person owning a metric is
\* answered 400, leaves people unchanged and broadcasts no person_deleted.
C16_OwnerNeverRemoved ==
  [][/\ \A p \in people \ people' : \A m \in metrics' : m.owner_id # p
     /\ (answered'.kind = "deletePerson" /\ answered'.status = 400) =>
          (people' = people /\ answered'.event # "person_deleted")]_vars

\* C17: once a metric delete has answered 200, no weekly value with that
\* metric id is stored, weekly values written by requests that interleave
\* with the delete included.
C17_DeleteCascades ==
  [][\A k \in ReqSlots :
       (/\ reqs[k].kind = "deleteMetric"
        /\ reqs'[k] = NoReq
        /\ answered' = Answer("deleteMetric", 200, "metric_deleted")) =>
         \A v \in weeklyValues' : v.metric_id # reqs[k].metric]_vars

\* the stored weekly values of a pair
valuesOf(vs, m, w) == {v \in vs : v.metric_id = m /\ v.week_id = w}

onePerPair(vs) ==
  \A v1 \in vs, v2 \in vs : (v1.metric_id = v2.metric_id /\ v1.week_id = v2.week_id) => v1 = v2

\* C18: in every reachable state a (metricId, weekId) pair has at most one
\* weekly value: a write for a pair that has a value leaves the number of
\* records unchanged and, having found the value, replaces its value and unit;
\* a write for a pair without one adds exactly one record, that of the
\* request; two concurrent writes for the same new pair never leave two
\* records.
C18_OneValuePerPair ==
  [][/\ onePerPair(weeklyValues')
     /\ \A k \in ReqSlots :
          (reqs[k].kind = "postValue" /\ reqs'[k] = NoReq) =>
            LET r == reqs[k]
                had == valuesOf(weeklyValues, r.metric, r.week)
                has == valuesOf(weeklyValues', r.metric, r.week)
                mine == {v \in has : v.value = r.value /\ v.unit = r.unit}
            IN  /\ Cardinality(has) <= 1
                /\ had # {} => Cardinality(weeklyValues') = Cardinality(weeklyValues)
                /\ (had # {} /\ r.seen = 1) => (has = mine /\ has # {})
                /\ (had = {} /\ r.seen = 0) =>
                     /\ Cardinality(weeklyValues') = Cardinality(weeklyValues) + 1
                     /\ has = mine
                     /\ has # {}]_vars

\* two writes for the same new pair ran concurrently: the second INSERT was
\* refused and the pair has its one record
C18_Witness ==
  /\ answered = Answer("postValue", 500, "")
  /\ \E v \in weeklyValues : Cardinality(valuesOf(weeklyValues, v.metric_id, v.week_id)) = 1

\* C19: after a reorder request has completed, no two stored metrics share a
\* displayOrder, and listing the metrics by ascending displayOrder gives the
\* metrics of the request in the order of the request.
C19_ReorderGivesStrictOrder ==
  [][\A list \in ReorderLists :
       Reorder(list) =>
         /\ \A m1 \in metrics', m2 \in metrics' :
              m1.id # m2.id => m1.display_order # m2.display_order
         /\ \A i \in 1..Len(list), j \in 1..Len(list) :
              \A m1 \in metrics', m2 \in metrics' :
                (i < j /\ m1.id = list[i] /\ m2.id = list[j]) =>
                  m1.display_order < m2.display_order]_vars

\* C20: in every reachable state every stored metric's owner is a stored
\* person and every stored weekly value refers to a stored metric and a
\* stored week.
C20_ReferencesValid ==
  /\ \A m \in metrics : m.owner_id \in people
  /\ \A v \in weeklyValues :
       /\ \E m \in metrics : m.id = v.metric_id
       /\ \E i \in 1..Len(weeks) : weeks[i].id = v.week_id

answeredReq(k, kind) == reqs[k].kind = kind /\ reqs'[k] = NoReq

C25_SampleWeeksComplete ==
  [][(seeded.by # "sample" /\ seeded'.by = "sample") =>
       LET rows == SubSeq(weeks', 1, seeded'.count)
           I == Intervals(rows)
           newest == CHOOSE e \in {I[k].e : k \in 1..Len(I)} : \A k \in 1..Len(I) : I[k].e <= e
           today == setHours(now, 0)
       IN  /\ Len(rows) = SampleWeekCount
           /\ Tiled(rows)
           /\ \A k \in 1..Len(I) : DateLt(parseDate(rows[k].end_date, tz), now)
           /\ getDay(mkDate(newest, 0)) = 0
           /\ now.day - newest \in 1..7
           /\ weekLoop(firstStartDate(parseDate(LatestWeek(weeks').end_date, tz)),
                       mostRecentSunday(today), today) = <<>>
    ]_vars

C25_Witness ==
  /\ seeded.by = "sample"
  /\ Len(weeks) = SampleWeekCount
  /\ getDay(now) = 0
  /\ Interval(LatestWeek(weeks)).e = now.day - 7
  /\ \E j \in Slots : invs[j].pc = "done" /\ invs[j].count0 = SampleWeekCount

\* C27: the metric a POST /api/metrics inserts has a displayOrder strictly
\* greater than that of every metric stored when it is inserted (0 when none
\* is stored), also when two create requests overlap.
C27_CreatedMetricIsLast ==
  [][\A k \in ReqSlots :
       answeredReq(k, "postMetric") =>
         /\ \A m \in metrics : m.display_order < reqs[k].order
         /\ metrics = {} => reqs[k].order = 0
    ]_vars

\* C28: when an UPDATE of a reorder request fails, every metric keeps the
\* displayOrder it had, the request is answered with an error and no
\* metrics_reordered event is broadcast.
C28_FailedReorderRollsBack ==
  [][\A list \in ReorderLists :
       \A failed \in (SUBSET (1..Len(list))) \ {{}} :
         ReorderFailing(list, failed) =>
           /\ metrics' = metrics
           /\ answered'.status >= 400
           /\ answered'.event = ""
    ]_vars

\* b holds the elements of a, each as often
Permutation(a, b) ==
  /\ Len(a) = Len(b)
  /\ \A x \in Range(a) \cup Range(b) :
       Cardinality({i \in DOMAIN a : a[i] = x}) = Cardinality({i \in DOMAIN b : b[i] = x})

\* b is a with the elements at places i and j (counted from 0) exchanged
Exchanged(a, b, i, j) ==
  /\ Len(a) = Len(b)
  /\ b[i + 1] = a[j + 1]
  /\ b[j + 1] = a[i + 1]
  /\ \A k \in DOMAIN a : k \notin {i + 1, j + 1} => b[k] = a[k]

\* C30: handleMoveUp(i) and handleMoveDown(i) exchange the metric at index i
\* with its neighbour, so orderedMetrics stays a permutation of the same
\* metrics, a move past either end changes nothing, and when the reorder
\* request fails a mounted Scorecard shows the order it had before the move.
C30_MoveSwapsAndReverts ==
  [][/\ \A index \in MoveIndexes :
          /\ handleMoveUp(index) =>
               /\ Permutation(orderedMetrics, orderedMetrics')
               /\ IF index \in 1..(Len(orderedMetrics) - 1)
                  THEN Exchanged(orderedMetrics, orderedMetrics', index, index - 1)
                  ELSE orderedMetrics' = orderedMetrics /\ moveReqs' = moveReqs
          /\ handleMoveDown(index) =>
               /\ Permutation(orderedMetrics, orderedMetrics')
               /\ IF index \in 0..(Len(orderedMetrics) - 2)
                  THEN Exchanged(orderedMetrics, orderedMetrics', index, index + 1)
                  ELSE orderedMetrics' = orderedMetrics /\ moveReqs' = moveReqs
     /\ \A k \in DOMAIN moveReqs :
          (reorderRejects(k) /\ isMounted) =>
            /\ orderedMetrics' = moveReqs[k].before
            /\ Permutation(moveReqs[k].sent, orderedMetrics')
    ]_vars

C30_Witness ==
  \E k \in DOMAIN moveReqs :
    /\ moveReqs[k].state = "failed"
    /\ isMounted
    /\ orderedMetrics = moveReqs[k].before
    /\ orderedMetrics # moveReqs[k].sent

C24_SampleSeededAtSuccess ==
  \A k \in InitSlots :
    (inits[k].kind = "sample" /\ inits[k].status = 200 /\ people # {}) => Len(weeks) > 0

\* C29: an EOS import in which an INSERT failed leaves none of its rows stored
\* and is answered with an error, and an import answered with success has
\* stored every owner, date, measurable and value of its input.
C29_ImportAllOrNothing ==
  \A k \in InitSlots :
    (inits[k].kind = "eos" /\ inits[k].pc = "done") =>
      LET input == EosData[inits[k].data]
      IN  /\ inits[k].failed > 0 => (inits[k].status >= 400 /\ inits[k].wrote = 0)
          /\ inits[k].status = 200 =>
               /\ \A i \in DOMAIN input.measurables :
                    /\ emailOf(input.measurables[i].ownerName) \in people
                    /\ \E m \in metrics :
                         /\ m.id = 10 * k + i
                         /\ Cardinality({v \in weeklyValues : v.metric_id = m.id})
                              = Len(input.measurables[i].values)
               /\ Len(weeks) >= Len(input.dates)

\* no fetchAllData call is due, no event waits to be handled and no
\* roll-forward is in flight
Quiesced ==
  /\ \A c \in Clients : clients[c].pending = 0 /\ clients[c].seen = Len(events)
  /\ \A k \in Slots : ~InFlight(k)

\* the statements one roll-forward can still schedule after its latest-week
\* query: BEGIN, prepare, COMMIT and one COUNT per week up to today
BatchBound == 3 + (MaxDay \div 7) + 1

\* the statements a scheduled statement stands for, itself included
opWork(o) ==
  CASE o.op = "people_count" -> 2 + BatchBound
    [] o.op = "latest" -> 1 + BatchBound
    [] OTHER -> 1

RECURSIVE queueWork(_)
queueWork(q) == IF q = <<>> THEN 0 ELSE opWork(Head(q)) + queueWork(Tail(q))

\* a due fetchAllData stands for one POST /api/weeks/update, an unhandled
\* event for one fetchAllData
fetchWork == 3 + BatchBound

RECURSIVE clientWork(_)
clientWork(cs) ==
  IF cs = {} THEN 0
  ELSE LET c == CHOOSE x \in cs : TRUE
       IN  fetchWork * clients[c].pending
           + (fetchWork + 1) * (Len(events) - clients[c].seen)
           + clientWork(cs \ {c})

\* the work the refresh cycle still has to do
Rank == queueWork(dbQueue) + clientWork(Clients)

====
